---- MODULE Spec2Model ----
(***************************************************************************)
(* A model of glimpse: format dispatch (formats/mod.rs and the loaders'    *)
(* can_load), the loaders' triangle generation, the hierarchy walks of the *)
(* voxel loaders and the software rasterizer (renderer.rs).                *)
(*                                                                         *)
(* A byte buffer is a sequence of blocks of BlockBytes bytes each.  A      *)
(* block is named by what its bytes hold: the marker strings the loaders   *)
(* search for, the GLB magic, bytes that are not UTF-8, or text whose last *)
(* byte opens a multi-byte character that the next block completes.        *)
(***************************************************************************)
EXTENDS Integers, Sequences, FiniteSets, TLC

VARIABLES
    \* ---- format dispatch: find_loader / load_model ----
    dpc,        \* position inside load_model
    data,       \* the byte buffer (a sequence of blocks)
    ext,        \* the extension hint, or None
    loader,     \* what find_loader returned (a loader name), or None
    byExt,      \* TRUE when the loader was returned by the extension step
    calls,      \* the loaders whose load_from_bytes was called, in order
    result,     \* what load_model returned
    \* ---- a loader's load_from_bytes: parse, then convert to triangles ----
    lpc,        \* position inside load_from_bytes
    ldr,        \* the loader that runs
    textures,   \* Blockbench: the decoded textures (an image, or None)
    nelems,     \* elements / cubes / primitives / polygons of the document
    ei,         \* elements converted so far
    fi,         \* the face of the current cube to look at next (0: no cube open)
    uvMode,     \* Bedrock: "perface" or "box" UVs of the current cube
    face,       \* the face the face loop looked at last
    cube,       \* the triangles of the current cube
    ntri,       \* length of the loader's triangle list
    yawed,      \* TRUE once rotate_triangles_y_180 ran over the list
    lres,       \* what load_from_bytes returned
    \* ---- render_model_data ----
    rpc,        \* position inside render_model_data
    width, height,
    triangles,  \* model.triangles
    bb,         \* (bb_min, bb_max) of compute_bounds
    ti,         \* the triangle the rasterize loop looks at next
    color_buf,  \* colour per pixel, thousandths
    depth_buf,  \* nearest depth per pixel
    pixels,     \* what render_model_data returned
    \* ---- the hierarchy walks of the voxel loaders ----
    wpc,        \* position inside the conversion
    fmt,        \* the loader that runs
    hier,       \* the parsed hierarchy: per node its rotation and its link
    stack,      \* the call stack of the recursive walk
    chains,     \* element_parent_rotations / the bone chains
    bi,         \* the bone or element the loop looks at next
    chain,      \* Bedrock: the chain being built
    cur,        \* Bedrock: current_parent (0: none)
    visited,    \* Bedrock: the visited set of the parent walk
    trail,      \* Bedrock: the parent names the walk of this bone followed, in order
    applied,    \* per cube, the rotations applied to its vertices, in order
    \* ---- apply_uv_rotation on the UV corners of a face ----
    upc,        \* how often the corners were rotated
    uvs,        \* the four UV corners of the face
    rot1, rot2, \* the rotation_degrees of the first and the second call
    out1, out2, \* what the first and the second call returned
    \* ---- one cube of a voxel loader: its corners and the quad of a face ----
    cpc,        \* position inside the cube conversion
    cldr,       \* the loader that converts
    cfrom, cto, \* the cube's min and max corner
    verts,      \* the 8 corners of compute_cube_vertices
    cface,      \* the face emitted last (index into FaceNames)
    quad,       \* the four corners handed to quad_to_triangles for it
    \* ---- the construction of one TextureData ----
    tpc,        \* position inside the construction
    image,      \* the decoded image: where it comes from, its size, format, pixels
    tex,        \* the Option<TextureData> that was built
    \* ---- TextureData::sample ----
    spc,        \* position: a texture and a point, then the sample
    stex,       \* the texture that is sampled
    su, sv,     \* the UV coordinates of the sample
    texel,      \* what sample returned, and the bytes of the buffer it read
    \* ---- the provider object and the class factory ----
    obj,        \* the GltfThumbnailProviderData: not created, live or freed
    ref_count,  \* GltfThumbnailProviderData.ref_count
    iunknown_wrapper,   \* the stable IUnknown wrapper, 0 when null
    wrappers,   \* every ProviderWrapper allocated: its vtable, the times it
                \* was freed, the references the client holds through it
    LOCK_COUNT, \* the global count of objects and server locks
    locks,      \* LockServer(TRUE) calls not yet undone by the client
    thr,        \* each thread's place inside a call
    ret,        \* what the last call returned
    \* ---- the thumbnail of a provider object ----
    gpc,        \* position: an object exists
    source,     \* GltfThumbnailProviderData.source
    poisoned,   \* a panic was caught while the source mutex was held
    hr,         \* the call that returned last, and its HRESULT
    phbmp,      \* the caller's bitmap handle: 0, or the size of the bitmap
    pdwalpha,   \* the caller's alpha type
    \* ---- the pivot of a Vintage Story element ----
    vpc,        \* position in the conversion of one element
    velem,      \* the element: from, to, rotationOrigin, angle
    voffset,    \* parent_offset
    own_origin, \* the pivot used for the element's own cube, if it is turned
    elem_transform,     \* the transform handed to the children, if any
    child_origin        \* the pivot used for a child's cube, if it is turned

dvars == <<dpc, data, ext, loader, byExt, calls, result>>

lvars == <<lpc, ldr, textures, nelems, ei, fi, uvMode, face, cube, ntri, yawed, lres>>

rvars == <<rpc, width, height, triangles, bb, ti, color_buf, depth_buf, pixels>>

wvars == <<wpc, fmt, hier, stack, chains, bi, chain, cur, visited, trail, applied>>

uvars == <<upc, uvs, rot1, rot2, out1, out2>>

\* The state of the shared helpers.
cvars == <<cpc, cldr, cfrom, cto, verts, cface, quad>>

tvars == <<tpc, image, tex>>

svars == <<spc, stex, su, sv, texel>>

ovars == <<obj, ref_count, iunknown_wrapper, wrappers, LOCK_COUNT, locks, thr, ret>>

gvars == <<gpc, source, poisoned, hr, phbmp, pdwalpha>>

evars == <<vpc, velem, voffset, own_origin, elem_transform, child_origin>>

xvars == <<uvars, cvars, tvars, svars, ovars, gvars, evars>>

vars == <<dvars, lvars, rvars, wvars, xvars>>

None == "None"

(***************************************************************************)
(* Bounds of the model.                                                    *)
(***************************************************************************)
MaxBlocks == 5      \* longest buffer, in blocks
MaxMarks == 2       \* most blocks of a buffer that are not plain text
MaxElems == 2       \* most elements (cubes, primitives, polygons) of a document
MaxTextures == 1    \* most entries of a Blockbench texture list
MaxMeshTris == 2    \* most triangles one primitive or polygon yields
MaxSide == 2        \* largest requested width and height
MaxTris == 2        \* longest triangle list handed to the renderer
MaxNodes == 2       \* groups, nested elements or bones of a document
MaxTurns == 5       \* largest rotation of UV corners, in quarter turns
MaxCube == 2        \* largest size of a cube along an axis, and where it may start
MaxImage == 2       \* largest width and height of a texture image
UvSteps == 4        \* UV coordinates are multiples of 1 / UvSteps
MaxWrap == 2        \* UV coordinates lie between -MaxWrap and MaxWrap
MaxWrappers == 3    \* most interface wrappers allocated for the object
MaxRefs == 3        \* most references the client holds at a time
MaxLocks == 1       \* most outstanding LockServer(TRUE) calls
MaxReads == 2       \* most Read calls a stream answers before its end
MaxCoord == 2       \* largest coordinate of a Vintage Story element

(***************************************************************************)
(* Byte buffers.                                                           *)
(***************************************************************************)
GLB_MAGIC_LEN == 4          \* data.len() >= 4 && &data[0..4] == b"glTF"
GLTF_MIN_JSON_LEN == 10     \* data.len() > 10
GLTF_SNIFF_BYTES == 1000    \* &data[..data.len().min(1000)]
BB_SNIFF_BYTES == 2000      \* &text[..text.len().min(2000)]
VS_SNIFF_BYTES == 4000      \* &text[..text.len().min(4000)]

BlockBytes == GLTF_SNIFF_BYTES

BlockKinds == {"text", "glb", "gltfjson", "bbjson", "vsjson", "bad", "split"}

\* The marker strings a block of each kind contains.
MarkersOf(kind) ==
    CASE kind = "gltfjson" -> {"\"asset\"", "\"scenes\""}
      [] kind = "bbjson"   -> {"\"meta\"", "\"format_version\""}
      [] kind = "vsjson"   -> {"\"elements\"", "\"north\"", "\"from\"", "\"to\""}
      [] OTHER             -> {}

Buffers ==
    {b \in UNION {[1..n -> BlockKinds] : n \in 0..MaxBlocks} :
        Cardinality({i \in DOMAIN b : b[i] # "text"}) <= MaxMarks}

ByteLen(d) == Len(d) * BlockBytes

Min(a, b) == IF a <= b THEN a ELSE b

\* The first `bytes` bytes of the buffer, as blocks.
Prefix(d, bytes) == SubSeq(d, 1, Min(ByteLen(d), bytes) \div BlockBytes)

\* sample.contains(marker)
Contains(blocks, marker) == \E i \in DOMAIN blocks : marker \in MarkersOf(blocks[i])

\* std::str::from_utf8(data).is_ok(): every byte sequence of the buffer is
\* well-formed, and the buffer does not end inside a character.
ValidUtf8(d) ==
    /\ \A i \in DOMAIN d : d[i] # "bad"
    /\ Len(d) > 0 => d[Len(d)] # "split"

\* str::is_char_boundary(bytes) for a valid text: offsets 0 and len are
\* boundaries, an offset inside the text is one unless a character
\* straddles it.
IsCharBoundary(d, bytes) ==
    \/ bytes = 0
    \/ bytes = ByteLen(d)
    \/ /\ bytes < ByteLen(d)
       /\ bytes % BlockBytes = 0
       /\ d[bytes \div BlockBytes] # "split"

\* &text[..text.len().min(n)]: the slice, or a panic when the cut is not on
\* a character boundary.
SliceOk(d, n) == IsCharBoundary(d, Min(ByteLen(d), n))

(***************************************************************************)
(* Extension hints.                                                        *)
(***************************************************************************)
Hints == {None, "gltf", "glb", "bbmodel", "json", "JSON", "txt"}

to_lowercase(s) == IF s = "JSON" THEN "json" ELSE s

(***************************************************************************)
(* The loaders: extensions() and can_load().  can_load answers "accept",   *)
(* "reject", or "panic" when it slices the text inside a character.        *)
(***************************************************************************)
Registry == <<"glTF", "Blockbench", "Vintage Story">>

extensions(l) ==
    CASE l = "glTF"          -> {"gltf", "glb"}
      [] l = "Blockbench"    -> {"bbmodel"}
      [] l = "Vintage Story" -> {"json"}

GltfCanLoad(d, e) ==
    IF e # None /\ to_lowercase(e) \in {"gltf", "glb"} THEN "accept"
    ELSE IF ByteLen(d) >= GLB_MAGIC_LEN /\ d[1] = "glb" THEN "accept"
    ELSE IF /\ ByteLen(d) > GLTF_MIN_JSON_LEN
            /\ Contains(Prefix(d, GLTF_SNIFF_BYTES), "\"asset\"")
            /\ \/ Contains(Prefix(d, GLTF_SNIFF_BYTES), "\"scene\"")
               \/ Contains(Prefix(d, GLTF_SNIFF_BYTES), "\"scenes\"")
         THEN "accept"
    ELSE "reject"

BbmodelCanLoad(d, e) ==
    IF e # None /\ to_lowercase(e) = "bbmodel" THEN "accept"
    ELSE IF ~ValidUtf8(d) THEN "reject"
    ELSE IF ~SliceOk(d, BB_SNIFF_BYTES) THEN "panic"
    ELSE IF /\ Contains(Prefix(d, BB_SNIFF_BYTES), "\"meta\"")
            /\ Contains(Prefix(d, BB_SNIFF_BYTES), "\"format_version\"")
         THEN "accept"
    ELSE "reject"

VsHasElements(s) == Contains(s, "\"elements\"") \/ Contains(s, "elements:")

VsHasFaces(s) ==
    \E m \in {"\"north\"", "\"south\"", "\"east\"", "\"west\"", "\"up\"", "\"down\"",
              "north:", "south:", "east:", "west:", "up:", "down:"} : Contains(s, m)

VsHasCubeDef(s) ==
    /\ Contains(s, "\"from\"") \/ Contains(s, "from:")
    /\ Contains(s, "\"to\"") \/ Contains(s, "to:")

VintageStoryCanLoad(d, e) ==
    IF e # None /\ to_lowercase(e) # "json" THEN "reject"
    ELSE IF ~ValidUtf8(d) THEN "reject"
    ELSE IF ~SliceOk(d, VS_SNIFF_BYTES) THEN "panic"
    ELSE IF ~VsHasElements(Prefix(d, VS_SNIFF_BYTES)) THEN "reject"
    ELSE IF /\ VsHasFaces(Prefix(d, VS_SNIFF_BYTES))
            /\ VsHasCubeDef(Prefix(d, VS_SNIFF_BYTES))
         THEN "accept"
    ELSE "reject"

can_load(l, d, e) ==
    CASE l = "glTF"          -> GltfCanLoad(d, e)
      [] l = "Blockbench"    -> BbmodelCanLoad(d, e)
      [] l = "Vintage Story" -> VintageStoryCanLoad(d, e)

\* A dispatch that compares the hint as given, without lower-casing it.
ExtTestCaseSensitive(l, d, e) ==
    IF e \notin extensions(l) THEN "reject" ELSE can_load(l, d, e)

(***************************************************************************)
(* find_loader.  Both steps scan the registry in order and stop at the     *)
(* first loader their test accepts; a panic inside a test ends the scan.   *)
(* The scans answer the index of the loader, 0 for no loader, -1 for a     *)
(* panic.                                                                  *)
(***************************************************************************)
\* loader.extensions().contains(ext_lower) && loader.can_load(data, Some(ext_lower))
ExtTest(l, d, e) ==
    IF to_lowercase(e) \notin extensions(l) THEN "reject"
    ELSE can_load(l, d, to_lowercase(e))

RECURSIVE ExtScan(_, _, _)
ExtScan(i, d, e) ==
    IF i > Len(Registry) THEN 0
    ELSE LET r == ExtTest(Registry[i], d, e)
         IN  IF r = "panic" THEN -1
             ELSE IF r = "accept" THEN i
             ELSE ExtScan(i + 1, d, e)

\* loaders.into_iter().find(|loader| loader.can_load(data, extension))
RECURSIVE SniffScan(_, _, _)
SniffScan(i, d, e) ==
    IF i > Len(Registry) THEN 0
    ELSE LET r == can_load(Registry[i], d, e)
         IN  IF r = "panic" THEN -1
             ELSE IF r = "accept" THEN i
             ELSE SniffScan(i + 1, d, e)

\* The extension step of find_loader.
FindByExtension ==
    /\ dpc = "find"
    /\ LET idx == IF ext = None THEN 0 ELSE ExtScan(1, data, ext)
       IN  /\ dpc' = IF idx = -1 THEN "panicked"
                     ELSE IF idx = 0 THEN "fallback"
                     ELSE "found"
           /\ loader' = IF idx > 0 THEN Registry[idx] ELSE None
           /\ byExt' = (idx > 0)
    /\ UNCHANGED <<data, ext, calls, result, lvars, rvars, wvars, xvars>>

\* The fall-back step of find_loader.
FallbackSniff ==
    /\ dpc = "fallback"
    /\ LET idx == SniffScan(1, data, ext)
       IN  /\ dpc' = IF idx = -1 THEN "panicked"
                     ELSE IF idx = 0 THEN "notfound"
                     ELSE "found"
           /\ loader' = IF idx > 0 THEN Registry[idx] ELSE None
    /\ UNCHANGED <<data, ext, byExt, calls, result, lvars, rvars, wvars, xvars>>

(***************************************************************************)
(* load_model: find_loader(..).ok_or(UnrecognizedFormat)?.load_from_bytes. *)
(* What a loader's load_from_bytes can return for a buffer is decided by   *)
(* the parse of the whole file; every loader returns InvalidData,          *)
(* NoGeometry or a model.                                                  *)
(***************************************************************************)
LoadOutcomes == {"InvalidData", "NoGeometry", "Ok"}

Unrecognized ==
    /\ dpc = "notfound"
    /\ result' = "UnrecognizedFormat"
    /\ dpc' = "returned"
    /\ UNCHANGED <<data, ext, loader, byExt, calls, lvars, rvars, wvars, xvars>>

LoadFromBytes ==
    /\ dpc = "found"
    /\ calls' = Append(calls, loader)
    /\ \E r \in LoadOutcomes : result' = r
    /\ dpc' = "returned"
    /\ UNCHANGED <<data, ext, loader, byExt, lvars, rvars, wvars, xvars>>

(***************************************************************************)
(* find_loader as a function of its arguments: a loader name, None, or     *)
(* "panic".                                                                *)
(***************************************************************************)
find_loader(d, e) ==
    LET i == IF e = None THEN 0 ELSE ExtScan(1, d, e)
    IN  IF i = -1 THEN "panic"
        ELSE IF i > 0 THEN Registry[i]
        ELSE LET j == SniffScan(1, d, e)
             IN  IF j = -1 THEN "panic"
                 ELSE IF j > 0 THEN Registry[j]
                 ELSE None

\* Loader i of the registry lists the lower-cased hint and accepts the buffer.
ExtMatches(i, d, e) ==
    /\ e # None
    /\ to_lowercase(e) \in extensions(Registry[i])
    /\ can_load(Registry[i], d, to_lowercase(e)) = "accept"

NoExtMatch(d, e) == \A i \in DOMAIN Registry : ~ExtMatches(i, d, e)

\* C1: with a hint, find_loader returns the first loader of the registry that
\* lists the lower-cased hint and whose content check accepts the buffer; the
\* fall-back step is reached only when there is no such loader.
C1_ExtensionStepFirstMatch ==
    /\ (dpc # "find" /\ ext # None /\ ~NoExtMatch(data, ext)) =>
          /\ byExt
          /\ dpc \in {"found", "returned"}
          /\ \E i \in DOMAIN Registry :
                /\ loader = Registry[i]
                /\ ExtMatches(i, data, ext)
                /\ \A j \in 1..(i - 1) : ~ExtMatches(j, data, ext)
    /\ dpc = "fallback" => NoExtMatch(data, ext)
    /\ byExt => ext # None /\ ~NoExtMatch(data, ext)

\* C1 witness: an upper-case hint selected the Vintage Story loader by
\* extension and content.
C1_Witness ==
    /\ dpc = "found" /\ byExt
    /\ ext = "JSON" /\ loader = "Vintage Story"

\* The first loader of the registry whose content sniff (no hint) accepts
\* the buffer, or None.
ContentOnly(d) ==
    IF \E i \in DOMAIN Registry : can_load(Registry[i], d, None) = "accept"
    THEN Registry[CHOOSE i \in DOMAIN Registry :
                    /\ can_load(Registry[i], d, None) = "accept"
                    /\ \A j \in 1..(i - 1) : can_load(Registry[j], d, None) # "accept"]
    ELSE None

\* C2: when no loader matches by extension the answer of find_loader does
\* not depend on the hint: any other hint without an extension match (no
\* hint included) gets the same answer, the first loader whose content
\* sniff accepts the buffer, or none.  Runs in which a content check panics
\* are left out.
C2_FallbackIgnoresHint ==
    (dpc \in {"found", "notfound"} /\ ~byExt) =>
        \A h \in Hints :
            (NoExtMatch(data, h) /\ find_loader(data, h) # "panic") =>
                /\ find_loader(data, h) = loader
                /\ loader = ContentOnly(data)

NoLoaderAccepts(d, e) == \A i \in DOMAIN Registry : can_load(Registry[i], d, e) # "accept"

\* C28: find_loader returns, and every can_load it could call returns, for
\* every buffer and every hint: no content check panics, also for a text in
\* which a character of several bytes lies across the offset of the cut.
C28_SniffNeverPanics ==
    /\ dpc # "panicked"
    /\ dpc \notin {"idle", "find"} =>
          \A i \in DOMAIN Registry : can_load(Registry[i], data, ext) # "panic"

\* Where no character lies across the offset 2000 or 4000 of a text, nothing
\* panics.
C28_TotalOnCharBoundaries ==
    (SliceOk(data, BB_SNIFF_BYTES) /\ SliceOk(data, VS_SNIFF_BYTES)) =>
        /\ dpc # "panicked"
        /\ \A i \in DOMAIN Registry : can_load(Registry[i], data, ext) # "panic"

\* find_loader panicked on a valid UTF-8 text.
C28_PanicOnSplitCharacter ==
    /\ dpc = "panicked"
    /\ ValidUtf8(data)
    /\ ~SliceOk(data, BB_SNIFF_BYTES) \/ ~SliceOk(data, VS_SNIFF_BYTES)

\* C3: when no registered loader's can_load accepts the buffer and hint,
\* find_loader returns none and load_model returns UnrecognizedFormat without
\* calling load_from_bytes; UnrecognizedFormat is returned only then.
C3_UnrecognizedExactly ==
    /\ (dpc \notin {"find", "fallback"} /\ NoLoaderAccepts(data, ext)) =>
          /\ dpc \in {"notfound", "returned"}
          /\ loader = None
          /\ calls = <<>>
          /\ dpc = "returned" => result = "UnrecognizedFormat"
    /\ result = "UnrecognizedFormat" => NoLoaderAccepts(data, ext)

\* The same statement over the runs in which no content check panics.
C3_UnrecognizedUnlessPanic ==
    dpc # "panicked" =>
        /\ (dpc \notin {"find", "fallback"} /\ NoLoaderAccepts(data, ext)) =>
              /\ loader = None
              /\ calls = <<>>
              /\ dpc = "returned" => result = "UnrecognizedFormat"
        /\ result = "UnrecognizedFormat" => NoLoaderAccepts(data, ext)


\* The buffers that agree with d on the first VS_SNIFF_BYTES bytes.
SamePrefix(d) == {b \in Buffers : Prefix(b, VS_SNIFF_BYTES) = Prefix(d, VS_SNIFF_BYTES)}

\* C19: a content check depends only on the extension hint and on the first
\* 4000 bytes of the buffer: a buffer that agrees with the given one on that
\* prefix gets the same can_load answer from every loader.
C19_SniffReadsPrefixOnly ==
    dpc \notin {"idle", "find"} =>
        \A b \in SamePrefix(data) :
            \A i \in DOMAIN Registry :
                can_load(Registry[i], b, ext) = can_load(Registry[i], data, ext)

\* C19 counterexample: find_loader has run on a Blockbench document of more
\* than 4000 bytes with an ill-formed byte sequence behind the prefix; the
\* Blockbench check rejects it and accepts the same prefix followed by text.
C19_TailChangesAnswer ==
    /\ dpc # "find" /\ ext = None
    /\ ByteLen(data) > VS_SNIFF_BYTES
    /\ data[Len(data)] = "bad"
    /\ can_load("Blockbench", data, ext) = "reject"
    /\ can_load("Blockbench", [data EXCEPT ![Len(data)] = "text"], ext) = "accept"

DispatchInit ==
    /\ dpc = "find"
    /\ data \in Buffers
    /\ ext \in Hints
    /\ loader = None
    /\ byExt = FALSE
    /\ calls = <<>>
    /\ result = None

DispatchIdle ==
    /\ dpc = "idle"
    /\ data = <<>>
    /\ ext = None
    /\ loader = None
    /\ byExt = FALSE
    /\ calls = <<>>
    /\ result = None

DispatchNext == FindByExtension \/ FallbackSniff \/ Unrecognized \/ LoadFromBytes

(***************************************************************************)
(* The loaders' load_from_bytes.  The parse of the document is the work of *)
(* json5, serde_json, gltf and obj; its outcome is an input here.  Faces   *)
(* are read from the parsed document one at a time.                        *)
(***************************************************************************)
VoxelLoaders == {"Blockbench", "Vintage Story", "MC Java", "MC Bedrock"}
MeshLoaders == {"glTF", "Wavefront OBJ"}
AllLoaders == VoxelLoaders \cup MeshLoaders

FaceNames == <<"north", "south", "east", "west", "up", "down">>

\* A face of a parsed cube: not in the document, or its fields.  "#k" is a
\* reference to texture k.
Undefined == [defined |-> FALSE, enabled |-> "unset", texture |-> "missing"]
FaceInputs ==
    {Undefined} \cup
    [defined : {TRUE}, enabled : {"unset", "true", "false"},
     texture : {"missing", "null", "#0", "#1"}]

TexIndex(ref) == IF ref = "#0" THEN 0 ELSE 1

TextureLists == UNION {[1..n -> {"image", None}] : n \in 0..MaxTextures}

\* texture_ref.as_u64().and_then(|idx| textures.get(idx)).and_then(|t| t.clone())
BbFaceTexture(ref, texs) ==
    IF TexIndex(ref) < Len(texs) THEN texs[TexIndex(ref) + 1] ELSE None

default_color(l) == IF l = "Vintage Story" THEN "gray75" ELSE "gray85"

\* A quad that yields only its first triangle.
QuadAsOneTriangle(name, color, texture) ==
    << [face |-> name, corners |-> <<0, 1, 2>>, color |-> color, texture |-> texture] >>

\* quad_to_triangles: two triangles of one face.
quad_to_triangles(name, color, texture) ==
    << [face |-> name, corners |-> <<0, 1, 2>>, color |-> color, texture |-> texture],
       [face |-> name, corners |-> <<0, 2, 3>>, color |-> color, texture |-> texture] >>

\* A Blockbench face loop that leaves out a face whose texture is not loaded.
BbSkipUnresolved(l, name, f, texs) ==
    IF ~f.defined THEN <<>>
    ELSE IF f.texture \in {"missing", "null"} THEN <<>>
    ELSE IF BbFaceTexture(f.texture, texs) = None THEN <<>>
    ELSE quad_to_triangles(name, default_color(l), BbFaceTexture(f.texture, texs))

\* The face loop of convert_cube_to_triangles (Blockbench).
BbFaceTriangles(l, name, f, texs) ==
    IF ~f.defined THEN <<>>
    ELSE IF f.texture \in {"missing", "null"} THEN <<>>
    ELSE quad_to_triangles(name, default_color(l), BbFaceTexture(f.texture, texs))

\* The face loop of convert_vs_cube_to_triangles.
VsFaceTriangles(l, name, f) ==
    IF ~f.defined THEN <<>>
    ELSE IF f.enabled = "false" THEN <<>>
    ELSE quad_to_triangles(name, default_color(l), None)

\* The face loop of convert_java_cube.
JavaFaceTriangles(l, name, f) ==
    IF ~f.defined THEN <<>>
    ELSE IF f.texture \in {"missing", "null"} THEN <<>>
    ELSE quad_to_triangles(name, default_color(l), None)

\* The face loop of convert_bedrock_cube.
BedrockFaceTriangles(l, name, f, mode) ==
    IF f.defined /\ mode = "perface" THEN quad_to_triangles(name, default_color(l), None)
    ELSE IF mode = "perface" THEN <<>>
    ELSE quad_to_triangles(name, default_color(l), None)

FaceTriangles(l, name, f, texs, mode) ==
    CASE l = "Blockbench"    -> BbFaceTriangles(l, name, f, texs)
      [] l = "Vintage Story" -> VsFaceTriangles(l, name, f)
      [] l = "MC Java"       -> JavaFaceTriangles(l, name, f)
      [] l = "MC Bedrock"    -> BedrockFaceTriangles(l, name, f, mode)

\* The loaders that end with rotate_triangles_y_180.
YawLoaders == {"Blockbench", "MC Java", "MC Bedrock"}

\* A conversion end without the emptiness check.
FinishResultUnchecked(l, n) == [kind |-> "Ok", triangles |-> n]

\* if triangles.is_empty() { return Err(LoadError::NoGeometry) }
\* [rotate_triangles_y_180(&mut triangles);] Ok(ModelData { triangles })
FinishResult(l, n) ==
    IF n = 0 THEN [kind |-> "NoGeometry", triangles |-> 0]
    ELSE [kind |-> "Ok", triangles |-> n]

\* The parse fails: Err(InvalidData).
ParseFails ==
    /\ lpc = "parse"
    /\ lpc' = "returned"
    /\ lres' = [kind |-> "InvalidData", triangles |-> 0]
    /\ UNCHANGED <<ldr, textures, nelems, ei, fi, uvMode, face, cube, ntri, yawed, dvars, rvars, wvars, xvars>>

\* The document has no scene (glTF) or an empty geometry list (Bedrock):
\* .ok_or(LoadError::NoGeometry)?
ParseNoScene ==
    /\ lpc = "parse"
    /\ ldr \in {"glTF", "MC Bedrock"}
    /\ lpc' = "returned"
    /\ lres' = [kind |-> "NoGeometry", triangles |-> 0]
    /\ UNCHANGED <<ldr, textures, nelems, ei, fi, uvMode, face, cube, ntri, yawed, dvars, rvars, wvars, xvars>>

\* The parse succeeds with n elements (and, for Blockbench, a texture list).
ParseOk ==
    /\ lpc = "parse"
    /\ \E n \in 0..MaxElems : nelems' = n
    /\ IF ldr = "Blockbench" THEN textures' \in TextureLists ELSE textures' = <<>>
    /\ lpc' = "convert"
    /\ UNCHANGED <<ldr, ei, fi, uvMode, face, cube, ntri, yawed, lres, dvars, rvars, wvars, xvars>>

\* A voxel loader starts the next cube.
BeginCube ==
    /\ lpc = "convert" /\ ldr \in VoxelLoaders
    /\ ei < nelems /\ fi = 0
    /\ fi' = 1
    /\ face' = Undefined
    /\ cube' = <<>>
    /\ IF ldr = "MC Bedrock" THEN uvMode' \in {"perface", "box"} ELSE uvMode' = None
    /\ UNCHANGED <<lpc, ldr, textures, nelems, ei, ntri, yawed, lres, dvars, rvars, wvars, xvars>>

\* One turn of the face loop of the current cube.
ConvertFace ==
    /\ lpc = "convert" /\ ldr \in VoxelLoaders
    /\ fi \in 1..Len(FaceNames)
    /\ \E f \in FaceInputs :
          /\ face' = f
          /\ cube' = cube \o FaceTriangles(ldr, FaceNames[fi], f, textures, uvMode)
    /\ fi' = fi + 1
    /\ UNCHANGED <<lpc, ldr, textures, nelems, ei, uvMode, ntri, yawed, lres, dvars, rvars, wvars, xvars>>

\* triangles.extend(cubes)
EndCube ==
    /\ lpc = "convert" /\ ldr \in VoxelLoaders
    /\ fi = Len(FaceNames) + 1
    /\ ntri' = ntri + Len(cube)
    /\ ei' = ei + 1
    /\ fi' = 0
    /\ face' = Undefined
    /\ cube' = <<>>
    /\ uvMode' = None
    /\ UNCHANGED <<lpc, ldr, textures, nelems, yawed, lres, dvars, rvars, wvars, xvars>>

\* A glTF primitive or an OBJ polygon: it is skipped (wrong mode, no
\* positions, fewer than 3 vertices, indices out of range) or pushes its
\* triangles.
MeshStep ==
    /\ lpc = "convert" /\ ldr \in MeshLoaders
    /\ ei < nelems
    /\ \E k \in 0..MaxMeshTris : ntri' = ntri + k
    /\ ei' = ei + 1
    /\ UNCHANGED <<lpc, ldr, textures, nelems, fi, uvMode, face, cube, yawed, lres, dvars, rvars, wvars, xvars>>

\* The end of convert_*_to_triangles / load_from_gltf.
Finish ==
    /\ lpc = "convert"
    /\ ei = nelems /\ fi = 0
    /\ lres' = FinishResult(ldr, ntri)
    /\ yawed' = (ntri > 0 /\ ldr \in YawLoaders)
    /\ lpc' = "returned"
    /\ UNCHANGED <<ldr, textures, nelems, ei, fi, uvMode, face, cube, ntri, dvars, rvars, wvars, xvars>>

LoadInit ==
    /\ lpc = "parse"
    /\ ldr \in AllLoaders
    /\ textures = <<>>
    /\ nelems = 0
    /\ ei = 0
    /\ fi = 0
    /\ uvMode = None
    /\ face = Undefined
    /\ cube = <<>>
    /\ ntri = 0
    /\ yawed = FALSE
    /\ lres = None

LoadIdle ==
    /\ lpc = "idle"
    /\ ldr = None
    /\ textures = <<>>
    /\ nelems = 0
    /\ ei = 0
    /\ fi = 0
    /\ uvMode = None
    /\ face = Undefined
    /\ cube = <<>>
    /\ ntri = 0
    /\ yawed = FALSE
    /\ lres = None

LoadNext ==
    \/ ParseFails \/ ParseNoScene \/ ParseOk
    \/ BeginCube \/ ConvertFace \/ EndCube \/ MeshStep \/ Finish

\* C4: a loader that returns Ok returns at least one triangle; when the
\* conversion ends with zero triangles the result is NoGeometry.
C4_NeverEmptyModel ==
    lpc = "returned" =>
        /\ lres.kind = "Ok" => (lres.triangles >= 1 /\ lres.triangles = ntri)
        /\ (ei = nelems /\ ntri = 0 /\ lres.kind # "InvalidData") => lres.kind = "NoGeometry"

\* C4 witness: a voxel loader converted a cube whose faces all yield nothing
\* and returned NoGeometry.
C4_Witness ==
    /\ lpc = "returned" /\ ldr \in VoxelLoaders
    /\ nelems >= 1 /\ ei = nelems /\ ntri = 0
    /\ lres.kind = "NoGeometry"

\* The triangles of the current cube that belong to the face called name.
OfFace(name) == SelectSeq(cube, LAMBDA t : t.face = name)
RenderedFaces == {t.face : t \in {cube[i] : i \in 1..Len(cube)}}

\* C12: a cube contributes exactly two triangles per rendered face, the
\* fan (0,1,2), (0,2,3) of the face's four corners, so a cube with all six
\* faces rendered contributes exactly 12, and what the cube contributes is
\* what is added to the model.
C12_TwoTrianglesPerFace ==
    /\ [](lpc = "convert" /\ ldr \in VoxelLoaders =>
            /\ Len(cube) = 2 * Cardinality(RenderedFaces)
            /\ \A name \in RenderedFaces :
                  /\ Len(OfFace(name)) = 2
                  /\ OfFace(name)[1].corners = <<0, 1, 2>>
                  /\ OfFace(name)[2].corners = <<0, 2, 3>>
            /\ Cardinality(RenderedFaces) = Len(FaceNames) => Len(cube) = 12)
    /\ [][fi = Len(FaceNames) + 1 => ntri' = ntri + 2 * Cardinality(RenderedFaces)]_vars

\* C12 witness: the face loop of a cube has ended with all six faces rendered.
C12_Witness ==
    /\ lpc = "convert" /\ ldr \in VoxelLoaders
    /\ fi = Len(FaceNames) + 1
    /\ Cardinality(RenderedFaces) = Len(FaceNames)
    /\ Len(cube) = 12

\* The faces the documentation says are left out: not in the document
\* (with box UV the six faces are all given by the cube), marked disabled,
\* or with no texture reference.
SaidToBeSkipped(l, f, mode) ==
    \/ ~f.defined /\ ~(l = "MC Bedrock" /\ mode = "box")
    \/ f.defined /\ f.enabled = "false"
    \/ f.defined /\ f.texture \in {"missing", "null"} /\ l # "MC Bedrock"

\* C13: in every voxel loader a face that is absent, explicitly disabled or
\* without a texture reference yields no triangles, and every other defined
\* face yields exactly two.
C13_FaceFilter ==
    (lpc = "convert" /\ ldr \in VoxelLoaders /\ fi >= 2) =>
        Len(OfFace(FaceNames[fi - 1])) =
            IF SaidToBeSkipped(ldr, face, uvMode) THEN 0 ELSE 2

\* C13 counterexample: Vintage Story has emitted two triangles for an
\* enabled face that has no texture reference.
C13_UntexturedFaceRendered ==
    /\ lpc = "convert" /\ ldr = "Vintage Story" /\ fi >= 2
    /\ face.defined /\ face.enabled # "false" /\ face.texture \in {"missing", "null"}
    /\ Len(OfFace(FaceNames[fi - 1])) = 2

\* The reference names an index beyond the texture list, or a texture whose
\* data URI did not decode.
Unresolved(ref, texs) ==
    /\ ref \in {"#0", "#1"}
    /\ \/ TexIndex(ref) >= Len(texs)
       \/ TexIndex(ref) < Len(texs) /\ texs[TexIndex(ref) + 1] # "image"

UnresolvedFaceSeen ==
    /\ lpc = "convert" /\ ldr = "Blockbench" /\ fi >= 2
    /\ face.defined /\ Unresolved(face.texture, textures)

\* C14: a Blockbench face whose texture reference is present and not null
\* but does not resolve to a decoded texture is still emitted as two
\* triangles without texture in the default colour; they are added to the
\* model, and the load whose model has them returns Ok.
C14_UnresolvedTextureFlat ==
    /\ [](UnresolvedFaceSeen =>
            /\ Len(OfFace(FaceNames[fi - 1])) = 2
            /\ \A i \in 1..2 :
                  /\ OfFace(FaceNames[fi - 1])[i].texture = None
                  /\ OfFace(FaceNames[fi - 1])[i].color = "gray85")
    /\ [][UnresolvedFaceSeen /\ fi = Len(FaceNames) + 1 => ntri' >= 2]_vars
    /\ []((lpc = "returned" /\ ldr = "Blockbench" /\ ei = nelems /\ ntri >= 2) =>
            lres = [kind |-> "Ok", triangles |-> ntri])

\* C14 witness: a load with such a face has returned.
C14_Witness ==
    /\ lpc = "returned" /\ ldr = "Blockbench" /\ lres.kind = "Ok"
    /\ nelems = 1 /\ ntri = 2
    /\ textures = <<None>>

\* C15: the 180 degree yaw about the centre of the model's bounding box is
\* applied to the triangles the Blockbench loader returns and to those of no
\* other loader.
C15_YawOnlyBlockbench ==
    (lpc = "returned" /\ lres.kind = "Ok") => (yawed <=> ldr = "Blockbench")

\* C15 counterexample: the Bedrock loader has returned triangles that went
\* through rotate_triangles_y_180.
C15_BedrockYawed ==
    /\ lpc = "returned" /\ ldr = "MC Bedrock"
    /\ lres.kind = "Ok" /\ yawed

(***************************************************************************)
(* render_model_data.  Lengths are integers in units of 1e-6, colours are  *)
(* thousandths, alpha is the texel's byte.  The camera projects a triangle *)
(* to a box of device coordinates (x to the right, y upwards, both -1..1   *)
(* inside the frame), a depth, and a shaded colour: these are inputs, the  *)
(* same for a triangle wherever it stands in the list.                     *)
(***************************************************************************)
INFINITY == 1000000
MIN_RADIUS == 1
ALPHA_ONE == 255
COLOR_ONE == 1000

Max(a, b) == IF a >= b THEN a ELSE b

NoTexture == [present |-> FALSE, alpha |-> ALPHA_ONE]
Textures == {NoTexture, [present |-> TRUE, alpha |-> 127], [present |-> TRUE, alpha |-> 128]}
Depths == {1, 2}
Shades == {400, COLOR_ONE}

\* Triangles that reach the depth test: one covering more than the frame,
\* one covering its top left quarter.
Everywhere == [x0 |-> -2, x1 |-> 2, y0 |-> -2, y1 |-> 2]
TopLeft == [x0 |-> -1, x1 |-> 0, y0 |-> 0, y1 |-> 1]
Nowhere == [x0 |-> 0, x1 |-> 0, y0 |-> 0, y1 |-> 0]

Drawable ==
    { [verts |-> <<<<-2, 0, 0>>, <<0, 0, 0>>, <<0, 2, 0>>>>, visible |-> TRUE,
       ndc |-> Everywhere, z |-> z, texture |-> t, shaded |-> c]
        : z \in Depths, t \in Textures, c \in Shades }
    \cup
    { [verts |-> <<<<0, 0, 0>>, <<1, 1, 0>>, <<1, 0, 1>>>>, visible |-> TRUE,
       ndc |-> TopLeft, z |-> z, texture |-> t, shaded |-> c]
        : z \in Depths, t \in Textures, c \in Shades }

\* A triangle with a vertex at clip w <= 0, and one collapsed to a point.
Behind ==
    [verts |-> <<<<0, 0, 0>>, <<2, 0, 0>>, <<0, 0, 0>>>>, visible |-> FALSE,
     ndc |-> Everywhere, z |-> 1, texture |-> NoTexture, shaded |-> COLOR_ONE]
Point ==
    [verts |-> <<<<2, 0, 0>>, <<2, 0, 0>>, <<2, 0, 0>>>>, visible |-> TRUE,
     ndc |-> Nowhere, z |-> 1, texture |-> NoTexture, shaded |-> COLOR_ONE]

TriangleInputs == Drawable \cup {Behind, Point}

TriangleLists == UNION {[1..n -> TriangleInputs] : n \in 0..MaxTris}

\* compute_bounds: component-wise min and max over every vertex.
RECURSIVE BoundsFold(_, _, _)
BoundsFold(tris, i, acc) ==
    IF i > Len(tris) THEN acc
    ELSE LET v == tris[i].verts
             lo == [k \in 1..3 |-> Min(Min(Min(acc[1][k], v[1][k]), v[2][k]), v[3][k])]
             hi == [k \in 1..3 |-> Max(Max(Max(acc[2][k], v[1][k]), v[2][k]), v[3][k])]
         IN BoundsFold(tris, i + 1, <<lo, hi>>)

compute_bounds(tris) ==
    BoundsFold(tris, 1, << <<INFINITY, INFINITY, INFINITY>>,
                           <<-INFINITY, -INFINITY, -INFINITY>> >>)

LengthSq(b) ==
    (b[2][1] - b[1][1]) * (b[2][1] - b[1][1])
    + (b[2][2] - b[1][2]) * (b[2][2] - b[1][2])
    + (b[2][3] - b[1][3]) * (b[2][3] - b[1][3])

\* A radius test that only rejects a model collapsed to a single point.
RadiusIsZero(b) == LengthSq(b) = 0

\* radius = extent.length() * 0.5;  radius < 1e-6
RadiusTooSmall(b) == LengthSq(b) < 4 * MIN_RADIUS * MIN_RADIUS

\* Twice the screen coordinate of a device coordinate:
\* (x * 0.5 + 0.5) * width and (0.5 - y * 0.5) * height.
ScreenX2(n, w) == (n + 1) * w

\* A screen mapping with y growing upwards.
ScreenY2Up(n, h) == (n + 1) * h

ScreenY2(n, h) == (1 - n) * h

\* The screen-space bounding box of the rasterize loop, clamped to the frame.
MinClamp(s2) == Max(s2, 0) \div 2
MaxClamp(s2, limit) == Min(Max(s2 + 1, 0) \div 2, limit)

\* barycentric(..) >= 0 at the pixel centre (x + 0.5, y + 0.5).
Inside(tri, x, y, w, h) ==
    /\ ScreenX2(tri.ndc.x0, w) <= 2 * x + 1
    /\ 2 * x + 1 <= ScreenX2(tri.ndc.x1, w)
    /\ ScreenY2(tri.ndc.y1, h) <= 2 * y + 1
    /\ 2 * y + 1 <= ScreenY2(tri.ndc.y0, h)
    /\ tri.ndc.x0 < tri.ndc.x1 /\ tri.ndc.y0 < tri.ndc.y1

\* The pixels (x, y) the loops of one triangle visit and find inside.
Fragments(tri, w, h) ==
    { <<x, y>> \in (0..(w - 1)) \X (0..(h - 1)) :
        /\ MinClamp(ScreenX2(tri.ndc.x0, w)) <= x
        /\ x < MaxClamp(ScreenX2(tri.ndc.x1, w), w)
        /\ MinClamp(ScreenY2(tri.ndc.y1, h)) <= y
        /\ y < MaxClamp(ScreenY2(tri.ndc.y0, h), h)
        /\ Inside(tri, x, y, w, h) }

\* let idx = y * w + x  (0-based; the buffers here are 1-based)
PixelIndex(x, y, w) == y * w + x

\* A cutoff that lets every fragment through.
NoCutoff(tri) == FALSE

\* alpha < 0.5, alpha = byte / 255
AlphaRejected(tri) == 2 * tri.texture.alpha < ALPHA_ONE

\* The body of the pixel loops for one triangle: depth test, depth write,
\* alpha cutoff, colour write.
DrawTriangle(bufs, tri, w, h) ==
    LET hit == { PixelIndex(f[1], f[2], w) + 1 : f \in
                   { g \in Fragments(tri, w, h) :
                       tri.z < bufs.depth[PixelIndex(g[1], g[2], w) + 1] } }
    IN [depth |-> [i \in 1..(w * h) |-> IF i \in hit THEN tri.z ELSE bufs.depth[i]],
        color |-> [i \in 1..(w * h) |->
                     IF i \in hit /\ ~AlphaRejected(tri)
                     THEN <<tri.shaded, tri.shaded, tri.shaded, COLOR_ONE>>
                     ELSE bufs.color[i]]]

\* (c.clamp(0.0, 1.0) * 255.0) as u8
ToByte(c) == (Min(Max(c, 0), COLOR_ONE) * ALPHA_ONE) \div COLOR_ONE

\* pixels[i * 4 + k] = byte of color_buf[i][k]
ToPixels(cb, w, h) ==
    [j \in 1..(w * h * 4) |-> ToByte(cb[((j - 1) \div 4) + 1][((j - 1) % 4) + 1])]

EmptyBuffers(w, h) ==
    [depth |-> [i \in 1..(w * h) |-> INFINITY],
     color |-> [i \in 1..(w * h) |-> <<0, 0, 0, 0>>]]

\* Option<Vec<u8>>
NoImage == [some |-> FALSE, bytes |-> <<>>]
SomeImage(bytes) == [some |-> TRUE, bytes |-> bytes]

\* if triangles.is_empty() { return None; }
RenderEmpty ==
    /\ rpc = "start" /\ triangles = <<>>
    /\ pixels' = NoImage
    /\ rpc' = "returned"
    /\ UNCHANGED <<width, height, triangles, bb, ti, color_buf, depth_buf, dvars, lvars, wvars, xvars>>

ComputeBounds ==
    /\ rpc = "start" /\ triangles # <<>>
    /\ bb' = compute_bounds(triangles)
    /\ rpc' = "bounds"
    /\ UNCHANGED <<width, height, triangles, ti, color_buf, depth_buf, pixels, dvars, lvars, wvars, xvars>>

\* if radius < 1e-6 { return None; }
RenderDegenerate ==
    /\ rpc = "bounds" /\ RadiusTooSmall(bb)
    /\ pixels' = NoImage
    /\ rpc' = "returned"
    /\ UNCHANGED <<width, height, triangles, bb, ti, color_buf, depth_buf, dvars, lvars, wvars, xvars>>

\* Camera and framebuffer.
SetupFramebuffer ==
    /\ rpc = "bounds" /\ ~RadiusTooSmall(bb)
    /\ color_buf' = EmptyBuffers(width, height).color
    /\ depth_buf' = EmptyBuffers(width, height).depth
    /\ ti' = 1
    /\ rpc' = "raster"
    /\ UNCHANGED <<width, height, triangles, bb, pixels, dvars, lvars, wvars, xvars>>

\* if !visible { continue; }
SkipInvisible ==
    /\ rpc = "raster" /\ ti <= Len(triangles)
    /\ ~triangles[ti].visible
    /\ ti' = ti + 1
    /\ UNCHANGED <<rpc, width, height, triangles, bb, color_buf, depth_buf, pixels, dvars, lvars, wvars, xvars>>

RasterizeTriangle ==
    /\ rpc = "raster" /\ ti <= Len(triangles)
    /\ triangles[ti].visible
    /\ LET out == DrawTriangle([depth |-> depth_buf, color |-> color_buf],
                               triangles[ti], width, height)
       IN /\ depth_buf' = out.depth
          /\ color_buf' = out.color
    /\ ti' = ti + 1
    /\ UNCHANGED <<rpc, width, height, triangles, bb, pixels, dvars, lvars, wvars, xvars>>

\* Convert f32 -> u8 RGBA;  Some(pixels)
ConvertPixels ==
    /\ rpc = "raster" /\ ti > Len(triangles)
    /\ pixels' = SomeImage(ToPixels(color_buf, width, height))
    /\ rpc' = "returned"
    /\ UNCHANGED <<width, height, triangles, bb, ti, color_buf, depth_buf, dvars, lvars, wvars, xvars>>

RenderInit ==
    /\ rpc = "start"
    /\ width \in 0..MaxSide
    /\ height \in 0..MaxSide
    /\ triangles \in TriangleLists
    /\ bb = <<>>
    /\ ti = 0
    /\ color_buf = <<>>
    /\ depth_buf = <<>>
    /\ pixels = NoImage

RenderIdle ==
    /\ rpc = "idle"
    /\ width = 0
    /\ height = 0
    /\ triangles = <<>>
    /\ bb = <<>>
    /\ ti = 0
    /\ color_buf = <<>>
    /\ depth_buf = <<>>
    /\ pixels = NoImage

RenderNext ==
    \/ RenderEmpty \/ ComputeBounds \/ RenderDegenerate \/ SetupFramebuffer
    \/ SkipInvisible \/ RasterizeTriangle \/ ConvertPixels

\* The bounding box of all vertices, taken over the set of vertices.
AllVertices(tris) == {tris[i].verts[k] : i \in DOMAIN tris, k \in 1..3}

AxisExtent(tris, k) ==
    LET c == {v[k] : v \in AllVertices(tris)}
    IN (CHOOSE m \in c : \A o \in c : o <= m) - (CHOOSE m \in c : \A o \in c : m <= o)

DiameterSq(tris) ==
    AxisExtent(tris, 1) * AxisExtent(tris, 1) + AxisExtent(tris, 2) * AxisExtent(tris, 2)
    + AxisExtent(tris, 3) * AxisExtent(tris, 3)

\* C5: render_model_data returns no image exactly when the triangle list is
\* empty or the bounding-sphere radius of all vertices (half the diagonal of
\* their bounding box) is below 1e-6; otherwise it returns an image with
\* every byte of every pixel.
C5_NoImageExactly ==
    rpc = "returned" =>
        /\ ~pixels.some <=> (triangles = <<>> \/ DiameterSq(triangles) < 4)
        /\ pixels.some =>
              /\ Len(pixels.bytes) = width * height * 4
              /\ \A j \in DOMAIN pixels.bytes : pixels.bytes[j] \in 0..255

\* C5 witness: a list of two triangles, each of them spanning something,
\* whose bounding sphere is too small.
C5_Witness ==
    /\ rpc = "returned" /\ ~pixels.some
    /\ Len(triangles) = 2 /\ DiameterSq(triangles) > 0

\* The triangles whose projection holds the centre of the pixel in column x
\* of row r, rows counted from the top: device x = (2x+1)/w - 1 and
\* device y = 1 - (2r+1)/h.
Covering(tris, x, r, w, h) ==
    { i \in DOMAIN tris :
        /\ tris[i].visible
        /\ tris[i].ndc.x0 < tris[i].ndc.x1 /\ tris[i].ndc.y0 < tris[i].ndc.y1
        /\ tris[i].ndc.x0 * w <= 2 * x + 1 - w /\ 2 * x + 1 - w <= tris[i].ndc.x1 * w
        /\ tris[i].ndc.y0 * h <= h - (2 * r + 1) /\ h - (2 * r + 1) <= tris[i].ndc.y1 * h }

\* The nearest of a set of triangles; of two at the same depth the earlier.
Nearest(tris, among) ==
    CHOOSE i \in among :
        \A j \in among : tris[i].z < tris[j].z \/ (tris[i].z = tris[j].z /\ i <= j)

PixelBytes(bytes, x, r, w) ==
    <<bytes[(r * w + x) * 4 + 1], bytes[(r * w + x) * 4 + 2],
      bytes[(r * w + x) * 4 + 3], bytes[(r * w + x) * 4 + 4]>>

ByteOf(c) == (c * 255) \div 1000

Opaque(tris, among) == {i \in among : 2 * tris[i].texture.alpha >= 255}

\* C6: a returned image has width*height*4 bytes; the 4 bytes R, G, B, A of
\* the pixel in column x of row r, rows counted from the top, stand at
\* offset (r*width + x)*4: a pixel no triangle covers is (0,0,0,0), a pixel
\* covered by opaque fragments only shows the nearest with alpha 255.
C6_RowMajorRgba ==
    (rpc = "returned" /\ pixels.some) =>
        /\ Len(pixels.bytes) = width * height * 4
        /\ \A x \in 0..(width - 1), r \in 0..(height - 1) :
              LET cov == Covering(triangles, x, r, width, height)
                  px == PixelBytes(pixels.bytes, x, r, width)
              IN /\ cov = {} => px = <<0, 0, 0, 0>>
                 /\ (cov # {} /\ Opaque(triangles, cov) = cov) =>
                       LET c == ByteOf(triangles[Nearest(triangles, cov)].shaded)
                       IN px = <<c, c, c, 255>>

\* C6 witness: a 2x2 image whose top left pixel is drawn and whose bottom
\* left pixel is empty.
C6_Witness ==
    /\ rpc = "returned" /\ pixels.some
    /\ width = 2 /\ height = 2
    /\ PixelBytes(pixels.bytes, 0, 0, width)[4] = 255
    /\ PixelBytes(pixels.bytes, 0, 1, width) = <<0, 0, 0, 0>>
    /\ PixelBytes(pixels.bytes, 1, 0, width) = <<0, 0, 0, 0>>

\* C7: a fragment whose sampled alpha is below 0.5 changes neither the
\* colour nor the depth stored for its pixel.
C7_RejectedFragmentSkipped ==
    [][ (rpc = "raster" /\ ti <= Len(triangles) /\ triangles[ti].visible
         /\ 2 * triangles[ti].texture.alpha < 255) =>
            \A x \in 0..(width - 1), r \in 0..(height - 1) :
                ti \in Covering(triangles, x, r, width, height) =>
                    /\ depth_buf'[r * width + x + 1] = depth_buf[r * width + x + 1]
                    /\ color_buf'[r * width + x + 1] = color_buf[r * width + x + 1] ]_vars

\* The image of a triangle list, as the rasterize loop computes it.
RECURSIVE RasterFold(_, _, _, _, _)
RasterFold(tris, i, bufs, w, h) ==
    IF i > Len(tris) THEN bufs
    ELSE RasterFold(tris, i + 1,
                    IF tris[i].visible THEN DrawTriangle(bufs, tris[i], w, h) ELSE bufs,
                    w, h)

ImageOf(tris, w, h) == ToPixels(RasterFold(tris, 1, EmptyBuffers(w, h), w, h).color, w, h)

Reordered(tris, q) == [i \in DOMAIN tris |-> tris[q[i]]]

\* The fragments at each pixel have pairwise distinct depths.
DistinctDepths(tris, w, h) ==
    \A x \in 0..(w - 1), r \in 0..(h - 1) :
        \A i, j \in Covering(tris, x, r, w, h) : i # j => tris[i].z # tris[j].z

\* C8: the image does not depend on the order of the triangles when the
\* fragments at each pixel have distinct depths: every ordering gives the
\* image just returned, in which each pixel shows the nearest fragment that
\* was not alpha-rejected (and nothing when there is none).
C8_OrderIndependent ==
    (rpc = "returned" /\ pixels.some /\ DistinctDepths(triangles, width, height)) =>
        /\ \A q \in Permutations(DOMAIN triangles) :
              ImageOf(Reordered(triangles, q), width, height) = pixels.bytes
        /\ \A x \in 0..(width - 1), r \in 0..(height - 1) :
              LET kept == Opaque(triangles, Covering(triangles, x, r, width, height))
                  px == PixelBytes(pixels.bytes, x, r, width)
              IN IF kept = {} THEN px = <<0, 0, 0, 0>>
                 ELSE LET c == ByteOf(triangles[Nearest(triangles, kept)].shaded)
                      IN px = <<c, c, c, 255>>

\* C22: in a returned image every pixel is (0,0,0,0) or has alpha 255; a
\* pixel with alpha 255 is covered by a fragment that passed the alpha
\* cutoff, and a pixel covered only by alpha-rejected fragments, or by none,
\* is (0,0,0,0).
C22_AlphaZeroOrOpaque ==
    (rpc = "returned" /\ pixels.some) =>
        \A x \in 0..(width - 1), r \in 0..(height - 1) :
            LET px == PixelBytes(pixels.bytes, x, r, width)
                kept == Opaque(triangles, Covering(triangles, x, r, width, height))
            IN /\ px = <<0, 0, 0, 0>> \/ px[4] = 255
               /\ px[4] = 255 => kept # {}
               /\ kept = {} => px = <<0, 0, 0, 0>>

\* An image was returned with a written pixel and with a pixel that only
\* alpha-rejected fragments cover.
C22_Witness ==
    /\ rpc = "returned" /\ pixels.some
    /\ \E x \in 0..(width - 1), r \in 0..(height - 1) :
          PixelBytes(pixels.bytes, x, r, width)[4] = 255
    /\ \E x \in 0..(width - 1), r \in 0..(height - 1) :
          /\ Covering(triangles, x, r, width, height) # {}
          /\ Opaque(triangles, Covering(triangles, x, r, width, height)) = {}
          /\ PixelBytes(pixels.bytes, x, r, width) = <<0, 0, 0, 0>>

(***************************************************************************)
(* The hierarchy walks.  A document has MaxNodes nodes.  Blockbench: node  *)
(* n is a group of the groups table whose children list names element n   *)
(* and, when link[n] # 0, the group link[n]; the outliner names the group  *)
(* root.  Vintage Story: node n is an element nested in the element that   *)
(* links to it; root is the top element.  Bedrock: node n is a bone with   *)
(* one cube and the parent bone link[n].  rot[n] says whether the node's   *)
(* angles are non-zero, own[n] whether its cube has a rotation of its own. *)
(* A rotation is recorded by whose it is; the angles are not computed.     *)
(***************************************************************************)
Nodes == 1..MaxNodes

\* The frames the thread's stack has room for.
StackLimit == MaxNodes + 2

HierFormats == {"Blockbench", "Vintage Story", "MC Bedrock"}

\* A parent name that no bone of the document has.
MissingBone == MaxNodes + 1

\* The names there are: no walk that follows a name once gets past this.
TrailCap == MaxNodes + 2

Hierarchies ==
    [rot : [Nodes -> BOOLEAN], link : [Nodes -> 0..MissingBone],
     own : [Nodes -> BOOLEAN], root : Nodes]

\* RotationTransform: whose rotation, about which pivot (the owner's origin,
\* moved by the offset the loader adds).
Transform(role, n, off) == [role |-> role, node |-> n, offset |-> off]

\* RotationTransform::new_if_non_zero: all |angle| < 0.001 gives none.
new_if_non_zero(h, role, n, off) ==
    IF h.rot[n] THEN <<Transform(role, n, off)>> ELSE <<>>

\* group.children of the groups table.
BbChildren(h, g) ==
    <<[kind |-> "element", id |-> g]>>
    \o (IF h.link[g] # 0 THEN <<[kind |-> "group", id |-> h.link[g]]>> ELSE <<>>)

\* element.children of a nested element.
VsChildren(h, n) ==
    IF h.link[n] # 0 THEN <<[kind |-> "nested", id |-> h.link[n]]>> ELSE <<>>

\* element.from of node n (one axis).
from(n) == n

\* Children handed the offset their parent was given.
OffsetKept(parent_offset, n) == parent_offset

\* child_offset = parent_offset + element.from
child_offset(parent_offset, n) == parent_offset + from(n)

\* parent_rotations.iter().rev()
RECURSIVE Reverse(_)
Reverse(s) == IF s = <<>> THEN <<>> ELSE Append(Reverse(Tail(s)), Head(s))

\* A loop over the parents in the order of the list, root first.
InListOrder(s) == s

\* parent_rotations.iter().rev() of the voxel loaders with a root-first list.
NearestFirst(s) == Reverse(s)

\* The cube's own rotation.
OwnRotation(f, h, n, off) ==
    IF f = "Vintage Story" THEN new_if_non_zero(h, "cube", n, off)
    ELSE IF h.own[n] THEN <<Transform("cube", n, 0)>> ELSE <<>>

\* The rotations a cube's vertices go through: its own, then the chain.
CubeRotations(f, h, n, parents, off) ==
    OwnRotation(f, h, n, off)
    \o (IF f = "MC Bedrock" THEN parents ELSE NearestFirst(parents))

Unset == [set |-> FALSE, chain |-> <<>>]
NotConverted == [done |-> FALSE, seq |-> <<>>, offset |-> 0]

Top == stack[Len(stack)]

\* collect_element_parent_rotations on a uuid of the groups table: the
\* group's rotation joins the chain and the walk enters group.children.
WalkGroup ==
    /\ wpc = "walk" /\ fmt = "Blockbench"
    /\ stack # <<>> /\ Top.todo # <<>>
    /\ Head(Top.todo).kind = "group"
    /\ Len(stack) < StackLimit
    /\ LET g == Head(Top.todo).id
       IN stack' = [stack EXCEPT ![Len(stack)].todo = Tail(Top.todo)]
                   \o <<[todo |-> BbChildren(hier, g),
                         chain |-> Top.chain \o new_if_non_zero(hier, "parent", g, 0),
                         offset |-> 0]>>
    /\ UNCHANGED <<wpc, fmt, hier, chains, bi, chain, cur, visited, trail, applied, dvars, lvars, rvars, xvars>>

\* collect_element_parent_rotations on a uuid that is no group:
\* entry(uuid).or_insert_with(|| parent_rotations.to_vec())
WalkElement ==
    /\ wpc = "walk" /\ fmt = "Blockbench"
    /\ stack # <<>> /\ Top.todo # <<>>
    /\ Head(Top.todo).kind = "element"
    /\ LET e == Head(Top.todo).id
       IN chains' = IF chains[e].set THEN chains
                    ELSE [chains EXCEPT ![e] = [set |-> TRUE, chain |-> Top.chain]]
    /\ stack' = [stack EXCEPT ![Len(stack)].todo = Tail(Top.todo)]
    /\ UNCHANGED <<wpc, fmt, hier, bi, chain, cur, visited, trail, applied, dvars, lvars, rvars, xvars>>

\* convert_vs_element_recursive: the element's cube, then its children with
\* the element's rotation added to the chain and its from to the offset.
VsElement ==
    /\ wpc = "walk" /\ fmt = "Vintage Story"
    /\ stack # <<>> /\ Top.todo # <<>>
    /\ Len(stack) < StackLimit
    /\ LET n == Head(Top.todo).id
       IN /\ applied' = [applied EXCEPT ![n] =
                [done |-> TRUE,
                 seq |-> CubeRotations(fmt, hier, n, Top.chain, Top.offset),
                 offset |-> Top.offset]]
          /\ stack' = [stack EXCEPT ![Len(stack)].todo = Tail(Top.todo)]
                      \o <<[todo |-> VsChildren(hier, n),
                            chain |-> Top.chain
                                      \o new_if_non_zero(hier, "parent", n, Top.offset),
                            offset |-> child_offset(Top.offset, n)]>>
    /\ UNCHANGED <<wpc, fmt, hier, chains, bi, chain, cur, visited, trail, dvars, lvars, rvars, xvars>>

\* The end of a for loop over children: the call returns.
WalkReturn ==
    /\ wpc = "walk"
    /\ stack # <<>> /\ Top.todo = <<>>
    /\ stack' = SubSeq(stack, 1, Len(stack) - 1)
    /\ UNCHANGED <<wpc, fmt, hier, chains, bi, chain, cur, visited, trail, applied, dvars, lvars, rvars, xvars>>

\* One more call than the stack has room for: the process dies.
WalkOverflow ==
    /\ wpc = "walk"
    /\ stack # <<>> /\ Top.todo # <<>>
    /\ Head(Top.todo).kind \in {"group", "nested"}
    /\ Len(stack) >= StackLimit
    /\ wpc' = "stack_overflow"
    /\ UNCHANGED <<fmt, hier, stack, chains, bi, chain, cur, visited, trail, applied, dvars, lvars, rvars, xvars>>

\* The walk is over.  Blockbench: every element gets an entry
\* (entry(uuid).or_default()) and the element loop starts.
WalkFinish ==
    /\ wpc = "walk" /\ stack = <<>>
    /\ IF fmt = "Blockbench"
       THEN /\ chains' = [n \in Nodes |-> [set |-> TRUE, chain |-> chains[n].chain]]
            /\ wpc' = "convert"
            /\ bi' = 1
       ELSE /\ wpc' = "done"
            /\ UNCHANGED <<chains, bi>>
    /\ UNCHANGED <<fmt, hier, stack, chain, cur, visited, trail, applied, dvars, lvars, rvars, xvars>>

\* build_bone_rotation_chains, one bone: the bone's own rotation first.
BoneStart ==
    /\ wpc = "bones" /\ bi <= MaxNodes
    /\ chain' = new_if_non_zero(hier, "parent", bi, 0)
    /\ cur' = hier.link[bi]
    /\ visited' = {}
    /\ trail' = <<>>
    /\ wpc' = "parents"
    /\ UNCHANGED <<fmt, hier, stack, chains, bi, applied, dvars, lvars, rvars, xvars>>

\* A walk that takes a name as new whatever it has seen.
NeverVisited(name, seen) == FALSE

\* if !visited.insert(parent_name) { break; }
AlreadyVisited(name, seen) == name \in seen

\* One turn of 'while let Some(parent_name) = current_parent' for a name
\* that some bone has.
BoneParent ==
    /\ wpc = "parents" /\ cur \in Nodes /\ ~AlreadyVisited(cur, visited)
    /\ Len(trail) < TrailCap
    /\ visited' = visited \cup {cur}
    /\ trail' = Append(trail, cur)
    /\ chain' = chain \o new_if_non_zero(hier, "parent", cur, 0)
    /\ cur' = hier.link[cur]
    /\ UNCHANGED <<wpc, fmt, hier, stack, chains, bi, applied, dvars, lvars, rvars, xvars>>

\* One turn for a name that no bone has: name_to_idx.get(..) is None, break.
BoneMissing ==
    /\ wpc = "parents" /\ cur = MissingBone /\ ~AlreadyVisited(cur, visited)
    /\ Len(trail) < TrailCap
    /\ visited' = visited \cup {cur}
    /\ trail' = Append(trail, cur)
    /\ UNCHANGED <<wpc, fmt, hier, stack, chains, bi, chain, cur, applied, dvars, lvars, rvars, xvars>>

\* The while loop ends (no parent, or !visited.insert(..)): chains.push(chain)
BoneDone ==
    /\ wpc = "parents" /\ (cur = 0 \/ AlreadyVisited(cur, visited))
    /\ chains' = [chains EXCEPT ![bi] = [set |-> TRUE, chain |-> chain]]
    /\ bi' = IF bi = MaxNodes THEN 1 ELSE bi + 1
    /\ wpc' = IF bi = MaxNodes THEN "convert" ELSE "bones"
    /\ chain' = <<>>
    /\ cur' = 0
    /\ visited' = {}
    /\ trail' = <<>>
    /\ UNCHANGED <<fmt, hier, stack, applied, dvars, lvars, rvars, xvars>>

\* convert_cube_to_triangles / convert_bedrock_cube: the rotations of one cube.
ConvertCube ==
    /\ wpc = "convert" /\ bi <= MaxNodes
    /\ applied' = [applied EXCEPT ![bi] =
            [done |-> TRUE, seq |-> CubeRotations(fmt, hier, bi, chains[bi].chain, 0),
             offset |-> 0]]
    /\ bi' = bi + 1
    /\ UNCHANGED <<wpc, fmt, hier, stack, chains, chain, cur, visited, trail, dvars, lvars, rvars, xvars>>

ConvertDone ==
    /\ wpc = "convert" /\ bi > MaxNodes
    /\ wpc' = "done"
    /\ UNCHANGED <<fmt, hier, stack, chains, bi, chain, cur, visited, trail, applied, dvars, lvars, rvars, xvars>>

\* The nodes from n along the links, until the end or a node met before.
RECURSIVE Descent(_, _, _)
Descent(h, n, path) ==
    IF n \notin Nodes \/ (\E i \in DOMAIN path : path[i] = n) THEN path
    ELSE Descent(h, h.link[n], Append(path, n))

\* Nested JSON elements form a tree.
IsTree(h) == LET p == Descent(h, h.root, <<>>) IN h.link[p[Len(p)]] = 0

WalkInit ==
    /\ fmt \in HierFormats
    /\ hier \in Hierarchies
    /\ fmt = "MC Bedrock" => hier.root = 1
    /\ fmt # "MC Bedrock" => \A n \in Nodes : hier.link[n] # MissingBone
    /\ fmt = "Vintage Story" => (IsTree(hier) /\ hier.own = hier.rot)
    /\ wpc = IF fmt = "MC Bedrock" THEN "bones" ELSE "walk"
    /\ stack = IF fmt = "MC Bedrock" THEN <<>>
               ELSE <<[todo |-> <<[kind |-> IF fmt = "Blockbench" THEN "group" ELSE "nested",
                                   id |-> hier.root]>>,
                       chain |-> <<>>, offset |-> 0]>>
    /\ chains = [n \in Nodes |-> Unset]
    /\ bi = 1
    /\ chain = <<>>
    /\ cur = 0
    /\ visited = {}
    /\ trail = <<>>
    /\ applied = [n \in Nodes |-> NotConverted]

WalkIdle ==
    /\ wpc = "idle"
    /\ fmt = None
    /\ hier = <<>>
    /\ stack = <<>>
    /\ chains = <<>>
    /\ bi = 0
    /\ chain = <<>>
    /\ cur = 0
    /\ visited = {}
    /\ trail = <<>>
    /\ applied = <<>>

WalkNext ==
    \/ WalkGroup \/ WalkElement \/ VsElement \/ WalkReturn \/ WalkOverflow \/ WalkFinish
    \/ BoneStart \/ BoneParent \/ BoneMissing \/ BoneDone \/ ConvertCube \/ ConvertDone

\* The place of node n on a path (0: not on it).
PlaceOn(path, n) ==
    IF \E i \in DOMAIN path : path[i] = n
    THEN CHOOSE i \in DOMAIN path : path[i] = n
    ELSE 0

\* The sum of from over the first k nodes of a path.
RECURSIVE OffsetBefore(_, _)
OffsetBefore(path, k) == IF k = 0 THEN 0 ELSE OffsetBefore(path, k - 1) + path[k]

\* The rotating nodes among path[k], path[k-1], .., path[1], in that order,
\* each with the offset of the nodes above it when the loader adds offsets.
RECURSIVE RotatingUpwards(_, _, _, _)
RotatingUpwards(h, path, k, withOffset) ==
    IF k = 0 THEN <<>>
    ELSE (IF h.rot[path[k]]
          THEN <<Transform("parent", path[k],
                           IF withOffset THEN OffsetBefore(path, k - 1) ELSE 0)>>
          ELSE <<>>)
         \o RotatingUpwards(h, path, k - 1, withOffset)

\* The rotating nodes among path[k], .., path[Len(path)], in that order.
RECURSIVE RotatingAlong(_, _, _)
RotatingAlong(h, path, k) ==
    IF k > Len(path) THEN <<>>
    ELSE (IF h.rot[path[k]] THEN <<Transform("parent", path[k], 0)>> ELSE <<>>)
         \o RotatingAlong(h, path, k + 1)

\* The hierarchy above cube n has a root: no node is met twice on the way.
HasRoot(f, h, n) ==
    LET p == Descent(h, IF f = "MC Bedrock" THEN n ELSE h.root, <<>>)
    IN h.link[p[Len(p)]] \notin Nodes

\* Own rotation, then the rotating ancestors from the nearest to the root.
ExpectedRotations(f, h, n) ==
    LET down == Descent(h, h.root, <<>>)
        k == PlaceOn(down, n)
    IN CASE f = "Blockbench" ->
              (IF h.own[n] THEN <<Transform("cube", n, 0)>> ELSE <<>>)
              \o RotatingUpwards(h, down, k, FALSE)
         [] f = "Vintage Story" ->
              (IF h.rot[n] THEN <<Transform("cube", n, OffsetBefore(down, k - 1))>> ELSE <<>>)
              \o RotatingUpwards(h, down, k - 1, TRUE)
         [] f = "MC Bedrock" ->
              (IF h.own[n] THEN <<Transform("cube", n, 0)>> ELSE <<>>)
              \o RotatingAlong(h, Descent(h, n, <<>>), 1)

AncestorFromSum(h, n) ==
    LET down == Descent(h, h.root, <<>>)
        k == PlaceOn(down, n)
        above == {down[i] : i \in 1..(k - 1)}
        RECURSIVE Sum(_)
        Sum(S) == IF S = {} THEN 0
                  ELSE LET x == CHOOSE x \in S : TRUE IN from(x) + Sum(S \ {x})
    IN Sum(above)

\* No transform stands twice in a chain.
EachOnce(c) == \A i, j \in DOMAIN c : i # j => c[i] # c[j]

\* C29: in the rotation chain of a Bedrock bone every bone of the hierarchy
\* stands at most once, also when the parent names run in a circle or a bone
\* names itself as its parent.
C29_EachBoneOnce ==
    fmt = "MC Bedrock" =>
        /\ EachOnce(chain)
        /\ \A n \in Nodes : EachOnce(chains[n].chain)

\* The k-th bone on the way up from bone n, 0 when the way has ended.
RECURSIVE Ancestor(_, _, _)
Ancestor(h, n, k) ==
    IF n \notin Nodes THEN 0
    ELSE IF k = 0 THEN n
    ELSE Ancestor(h, h.link[n], k - 1)

\* The bones whose way up never comes back to them.
NotOnOwnWay(h, n) ==
    \A k \in 1..TrailCap : Ancestor(h, n, k) # n

\* For a bone that is not its own ancestor the chain has every bone once.
C29_OnceOffCycles ==
    fmt = "MC Bedrock" =>
        \A n \in Nodes :
            (chains[n].set /\ NotOnOwnWay(hier, n)) => EachOnce(chains[n].chain)

\* A rotated bone that names itself as its parent has its rotation twice in
\* its chain.
C29_SelfParentTwice ==
    /\ fmt = "MC Bedrock"
    /\ \E n \in Nodes :
          /\ hier.link[n] = n /\ hier.rot[n]
          /\ chains[n].set
          /\ chains[n].chain = <<Transform("parent", n, 0), Transform("parent", n, 0)>>

C10_WalkTerminates == wpc # "stack_overflow"

NoRepeat(s) == \A i, j \in DOMAIN s : i # j => s[i] # s[j]

\* C11: building the rotation chains of a Bedrock bone list terminates for
\* every bone list, with parent names that form a cycle, name a missing bone
\* or name the bone itself; the walk of a bone follows no parent name twice.
C11_BoneChainTerminates ==
    (fmt = "MC Bedrock") => ([]NoRepeat(trail) /\ <>(wpc = "done"))

\* C11 witness: the walk of a bone comes back to a parent name it has
\* followed, after two names, and is about to stop there.
C11_Witness ==
    /\ fmt = "MC Bedrock" /\ wpc = "parents"
    /\ cur \in Nodes /\ cur \in visited
    /\ Len(trail) = 2

(***************************************************************************)
(* Specifications.                                                         *)
(***************************************************************************)
(***************************************************************************)
(* apply_uv_rotation.  An angle is a number of 45 degree steps; a wide     *)
(* angle is 65536 times that, which is how the angles beyond the range of  *)
(* i32 quarter turns are written.  Every angle here is an f32 value and    *)
(* its quotient by 90 is exact or ends in one half.                        *)
(***************************************************************************)
I32_MAX == 2147483647
I32_MIN == -2147483647 - 1
WIDE == 65536

Degrees(e, wide) == [eighths |-> e, wide |-> wide]
NoAngle == Degrees(0, FALSE)

\* Quarter turns: 90 * k degrees.
SmallAngles == {Degrees(e, FALSE) : e \in (-2 * MaxTurns)..(2 * MaxTurns)}
WideAngles == {Degrees(2 * h, TRUE) : h \in {-32769, -32768, 32767, 32768}}
Angles == SmallAngles \cup WideAngles

\* Two quads of UV corners, (u, v) each: the unit quad and a quad with a
\* repeated corner.
UvQuads ==
    { << <<0, 0>>, <<0, 1>>, <<1, 1>>, <<1, 0>> >>,
      << <<0, 0>>, <<1, 0>>, <<1, 1>>, <<0, 1>> >>,
      << <<0, 0>>, <<0, 0>>, <<1, 1>>, <<1, 0>> >> }

\* f32::round of n / 2: to the nearest integer, halves away from zero.
RoundHalf(n) == IF n >= 0 THEN (n + 1) \div 2 ELSE -((1 - n) \div 2)

\* (rotation_degrees / 90.0).round() as i32: the cast saturates.
QuarterTurnsAsI32(a) ==
    LET q == RoundHalf(a.eighths)
    IN IF ~a.wide THEN q
       ELSE IF q >= (I32_MAX \div WIDE) + 1 THEN I32_MAX
       ELSE IF q < I32_MIN \div WIDE THEN I32_MIN
       ELSE q * WIDE

\* i32::rem_euclid
rem_euclid(x, m) == x % m

\* A rotation of the slice the other way round.
RotateLeft(s, k) == [i \in 1..Len(s) |-> s[((i - 1 + k) % Len(s)) + 1]]

\* <[T]>::rotate_right(k): the last k elements come first.
rotate_right(s, k) == [i \in 1..Len(s) |-> s[((i - 1 - k) % Len(s)) + 1]]

apply_uv_rotation(corners, rotation_degrees) ==
    rotate_right(corners, rem_euclid(QuarterTurnsAsI32(rotation_degrees), 4))

\* Some face gets its corners rotated.
RotateUv ==
    /\ upc = "start"
    /\ \E a \in Angles :
          /\ rot1' = a
          /\ out1' = apply_uv_rotation(uvs, a)
    /\ upc' = "once"
    /\ UNCHANGED <<uvs, rot2, out2, dvars, lvars, rvars, wvars, cvars, tvars, svars, ovars, gvars, evars>>

\* The rotated corners are rotated again.
RotateUvAgain ==
    /\ upc = "once"
    /\ \E b \in Angles :
          /\ rot2' = b
          /\ out2' = apply_uv_rotation(out1, b)
    /\ upc' = "twice"
    /\ UNCHANGED <<uvs, rot1, out1, dvars, lvars, rvars, wvars, cvars, tvars, svars, ovars, gvars, evars>>

UvInit ==
    /\ upc = "start"
    /\ uvs \in UvQuads
    /\ rot1 = NoAngle /\ rot2 = NoAngle
    /\ out1 = <<>> /\ out2 = <<>>

UvIdle ==
    /\ upc = "idle"
    /\ uvs = <<>>
    /\ rot1 = NoAngle /\ rot2 = NoAngle
    /\ out1 = <<>> /\ out2 = <<>>

UvNext == RotateUv \/ RotateUvAgain

\* The angle is a whole number k of quarter turns; k mod 4.
IsQuarterTurns(a) == a.eighths % 2 = 0
TurnsMod4(a) == IF a.wide THEN 0 ELSE (a.eighths \div 2) % 4

\* to is from rotated right by k positions.
RotatedRightBy(fromQuad, to, k) ==
    /\ Len(to) = Len(fromQuad)
    /\ \A i \in 1..Len(fromQuad) : to[((i - 1 + k) % Len(fromQuad)) + 1] = fromQuad[i]

\* The sum of two angles that are both small or both wide.
AngleSum(a, b) == Degrees(a.eighths + b.eighths, a.wide)

\* The number of quarter turns is an i32.
WithinI32(a) ==
    ~a.wide \/ (a.eighths \div 2 >= I32_MIN \div WIDE /\ a.eighths \div 2 <= I32_MAX \div WIDE)

\* What C17 says of the calls made so far, for the angles that satisfy Ok.
UvRotationLaw(Ok(_)) ==
    /\ (upc \in {"once", "twice"} /\ IsQuarterTurns(rot1) /\ Ok(rot1)) =>
          /\ RotatedRightBy(uvs, out1, TurnsMod4(rot1))
          /\ TurnsMod4(rot1) = 0 => out1 = uvs
          /\ (TurnsMod4(rot1) = 1 /\ uvs = << <<0, 0>>, <<0, 1>>, <<1, 1>>, <<1, 0>> >>) =>
                out1 = << <<1, 0>>, <<0, 0>>, <<0, 1>>, <<1, 1>> >>
    /\ (upc = "twice" /\ IsQuarterTurns(rot1) /\ IsQuarterTurns(rot2)
        /\ rot1.wide = rot2.wide
        /\ Ok(rot1) /\ Ok(rot2) /\ Ok(AngleSum(rot1, rot2))) =>
          out2 = apply_uv_rotation(uvs, AngleSum(rot1, rot2))

AnyAngle(a) == TRUE

\* C17 as stated: apply_uv_rotation by k * 90 degrees, k any integer, returns
\* the corners rotated right by k mod 4 positions; 0 and 360 degrees are the
\* identity, 90 degrees maps the unit quad as the test says, and rotating by
\* a and then by b equals rotating by a + b.
C17_UvRotationAnyTurns == UvRotationLaw(AnyAngle)

\* C17 amended: the same for every k from -2^31 to 2^31 - 1, and for a, b
\* with a + b in that range.
C17_UvRotationWithinI32 == UvRotationLaw(WithinI32)

\* C17 witness: the unit quad rotated by -90 and then by 90 degrees.
C17_Witness ==
    /\ upc = "twice"
    /\ uvs = << <<0, 0>>, <<0, 1>>, <<1, 1>>, <<1, 0>> >>
    /\ rot1 = Degrees(-2, FALSE) /\ rot2 = Degrees(2, FALSE)
    /\ out1 = << <<0, 1>>, <<1, 1>>, <<1, 0>>, <<0, 0>> >>
    /\ out2 = uvs

(***************************************************************************)
(* The corners of a cube and the quad each loader builds for a face.       *)
(* Coordinates are integers; a cube has from < to on every axis.           *)
(***************************************************************************)
Coords == [1..3 -> 0..(MaxCube - 1)]
Sizes == [1..3 -> 1..MaxCube]

\* compute_cube_vertices: vertex k is verts[k + 1].
compute_cube_vertices(lo, hi) ==
    << <<lo[1], lo[2], lo[3]>>,
       <<hi[1], lo[2], lo[3]>>,
       <<hi[1], hi[2], lo[3]>>,
       <<lo[1], hi[2], lo[3]>>,
       <<lo[1], lo[2], hi[3]>>,
       <<hi[1], lo[2], hi[3]>>,
       <<hi[1], hi[2], hi[3]>>,
       <<lo[1], hi[2], hi[3]>> >>

\* CUBE_FACES, in the order north, south, east, west, up, down.
CUBE_FACES ==
    << <<0, 3, 2, 1>>, <<5, 6, 7, 4>>, <<1, 2, 6, 5>>,
       <<4, 7, 3, 0>>, <<3, 7, 6, 2>>, <<0, 1, 5, 4>> >>

\* BB_FACE_INDICES
BB_FACE_INDICES ==
    << <<2, 3, 0, 1>>, <<7, 6, 5, 4>>, <<6, 2, 1, 5>>,
       <<3, 7, 4, 0>>, <<3, 2, 6, 7>>, <<4, 5, 1, 0>> >>

\* JAVA_FACE_INDICES
JAVA_FACE_INDICES ==
    << <<2, 3, 0, 1>>, <<7, 6, 5, 4>>, <<6, 2, 1, 5>>,
       <<3, 7, 4, 0>>, <<3, 2, 6, 7>>, <<4, 5, 1, 0>> >>

\* BEDROCK_FACE_DEFS
BEDROCK_FACE_DEFS ==
    << <<2, 3, 0, 1>>, <<7, 6, 5, 4>>, <<6, 2, 1, 5>>,
       <<3, 7, 4, 0>>, <<3, 2, 6, 7>>, <<4, 5, 1, 0>> >>

\* face_defs of convert_vs_cube_to_triangles
VS_FACE_DEFS ==
    << <<0, 3, 2, 1>>, <<5, 6, 7, 4>>, <<1, 2, 6, 5>>,
       <<4, 7, 3, 0>>, <<3, 7, 6, 2>>, <<0, 1, 5, 4>> >>

\* The table a loader's face loop reads.
FaceIndices(l) ==
    CASE l = "Blockbench"    -> BB_FACE_INDICES
      [] l = "Vintage Story" -> VS_FACE_DEFS
      [] l = "MC Java"       -> JAVA_FACE_INDICES
      [] l = "MC Bedrock"    -> BEDROCK_FACE_DEFS

\* vertices[indices[0]], .., vertices[indices[3]] of quad_to_triangles
QuadCorners(vs, indices) == [i \in 1..4 |-> vs[indices[i] + 1]]

\* let vertices = compute_cube_vertices(from, to)
CubeVertices ==
    /\ cpc = "start"
    /\ verts' = compute_cube_vertices(cfrom, cto)
    /\ cpc' = "faces"
    /\ UNCHANGED <<cldr, cfrom, cto, cface, quad, dvars, lvars, rvars, wvars, uvars, tvars, svars, ovars, gvars, evars>>

\* One turn of the face loop: the quad of face f.
EmitQuad ==
    /\ cpc = "faces"
    /\ cface < Len(FaceNames)
    /\ cface' = cface + 1
    /\ quad' = QuadCorners(verts, FaceIndices(cldr)[cface + 1])
    /\ UNCHANGED <<cpc, cldr, cfrom, cto, verts, dvars, lvars, rvars, wvars, uvars, tvars, svars, ovars, gvars, evars>>

CubeInit ==
    /\ cpc = "start"
    /\ cldr \in VoxelLoaders
    /\ cfrom \in Coords
    /\ \E size \in Sizes : cto = [a \in 1..3 |-> cfrom[a] + size[a]]
    /\ verts = <<>>
    /\ cface = 0
    /\ quad = <<>>

CubeIdle ==
    /\ cpc = "idle"
    /\ cldr = None
    /\ cfrom = <<>> /\ cto = <<>>
    /\ verts = <<>>
    /\ cface = 0
    /\ quad = <<>>

CubeNext == CubeVertices \/ EmitQuad

\* FaceDirection::normal of the face with index f: the axis and the sign.
NormalAxis(f) == <<3, 3, 1, 1, 2, 2>>[f]
NormalSign(f) == <<-1, 1, 1, -1, 1, -1>>[f]

Minus(p, q) == [a \in 1..3 |-> p[a] - q[a]]
Cross(p, q) ==
    << p[2] * q[3] - p[3] * q[2],
       p[3] * q[1] - p[1] * q[3],
       p[1] * q[2] - p[2] * q[1] >>

\* The four corners are distinct and lie on the side of the cube that the
\* face is named after.
OnNamedSide(f) ==
    /\ \A i, j \in 1..4 : i # j => quad[i] # quad[j]
    /\ \A i \in 1..4 :
          quad[i][NormalAxis(f)] =
              IF NormalSign(f) > 0 THEN cto[NormalAxis(f)] ELSE cfrom[NormalAxis(f)]

\* Counter-clockwise seen from outside: the normal of the corners, taken in
\* their order, points out of the cube.
CounterClockwise(f) ==
    \A i \in 1..4 :
        LET a == quad[i]
            b == quad[(i % 4) + 1]
            c == quad[((i + 1) % 4) + 1]
        IN Cross(Minus(b, a), Minus(c, a))[NormalAxis(f)] * NormalSign(f) > 0

\* C18: every voxel loader emits face f from the same four corner indices
\* in the same order; the four corners are distinct, lie on the side of the
\* cube named by f, and are wound counter-clockwise seen from outside.
C18_SharedFaceTable ==
    (cpc = "faces" /\ cface >= 1) =>
        /\ \A l \in VoxelLoaders : FaceIndices(l)[cface] = FaceIndices(cldr)[cface]
        /\ FaceIndices(cldr)[cface] = CUBE_FACES[cface]
        /\ OnNamedSide(cface)
        /\ CounterClockwise(cface)

\* What does hold of every loader: the corners of a face are distinct and on
\* the side the face is named after.
C18_CornersOnNamedSide ==
    (cpc = "faces" /\ cface >= 1) => OnNamedSide(cface)

\* C18 counterexample: the Blockbench loader has emitted its north face from
\* the corners 2, 3, 0, 1, clockwise seen from outside, where the Vintage
\* Story loader uses 0, 3, 2, 1.
C18_BlockbenchClockwise ==
    /\ cpc = "faces" /\ cldr = "Blockbench" /\ cface = 1
    /\ FaceIndices(cldr)[cface] # FaceIndices("Vintage Story")[cface]
    /\ ~CounterClockwise(cface)

(***************************************************************************)
(* TextureData.  An image arrives decoded by the gltf crate, in the pixel  *)
(* format of its file, or is decoded to RGBA8 by the image crate from a    *)
(* data URL.  Pixels are sequences of bytes.                               *)
(***************************************************************************)
Formats ==
    {"R8", "R8G8", "R8G8B8", "R8G8B8A8",
     "R16", "R16G16", "R16G16B16", "R16G16B16A16",
     "R32G32B32FLOAT", "R32G32B32A32FLOAT"}

\* Bytes per pixel of gltf::image::Format.
Channels(f) ==
    CASE f \in {"R8", "R16"}                                     -> 1
      [] f \in {"R8G8", "R16G16"}                                -> 2
      [] f \in {"R8G8B8", "R16G16B16", "R32G32B32FLOAT"}          -> 3
      [] f \in {"R8G8B8A8", "R16G16B16A16", "R32G32B32A32FLOAT"}  -> 4
BytesPerChannel(f) ==
    CASE f \in {"R8", "R8G8", "R8G8B8", "R8G8B8A8"}             -> 1
      [] f \in {"R16", "R16G16", "R16G16B16", "R16G16B16A16"}   -> 2
      [] f \in {"R32G32B32FLOAT", "R32G32B32A32FLOAT"}           -> 4
BytesPerPixel(f) == Channels(f) * BytesPerChannel(f)

Bytes(n, value) == [i \in 1..n |-> value]

Images ==
    { [source |-> src, width |-> w, height |-> h, format |-> f,
       pixels |-> Bytes(w * h * BytesPerPixel(f), g)] :
        src \in {"gltf"}, w \in 1..MaxImage, h \in 1..MaxImage, f \in Formats, g \in {0, 200} }
    \cup
    { [source |-> src, width |-> w, height |-> h, format |-> f,
       pixels |-> Bytes(w * h * BytesPerPixel(f), g)] :
        src \in {"data url"}, w \in 1..MaxImage, h \in 1..MaxImage,
        f \in {"R8G8B8A8"}, g \in {0, 200} }

\* pixels.chunks_exact(n) followed by the pushes of one arm of the match:
\* per chunk the bytes at the places `take` (0: the constant fill).
RECURSIVE Rechunk(_, _, _, _)
Rechunk(px, n, take, fill) ==
    IF Len(px) < n THEN <<>>
    ELSE [i \in 1..Len(take) |-> IF take[i] = 0 THEN fill[i] ELSE px[take[i]]]
         \o Rechunk(SubSeq(px, n + 1, Len(px)), n, take, fill)

convert_to_rgba(px, f) ==
    CASE f = "R8G8B8A8" -> px
      [] f = "R8G8B8"   -> Rechunk(px, 3, <<1, 2, 3, 0>>, <<0, 0, 0, 255>>)
      [] f = "R8"       -> Rechunk(px, 1, <<1, 1, 1, 0>>, <<0, 0, 0, 255>>)
      [] f = "R8G8"     -> Rechunk(px, 2, <<1, 2, 0, 0>>, <<0, 0, 0, 255>>)
      [] f \in {"R16", "R16G16", "R16G16B16", "R16G16B16A16"} ->
            Bytes((Len(px) \div 2) * 4, 255)
      [] f = "R32G32B32FLOAT"    -> Bytes((Len(px) \div 12) * 4, 255)
      [] f = "R32G32B32A32FLOAT" -> Bytes((Len(px) \div 16) * 4, 255)

NoTextureData == [some |-> FALSE, width |-> 0, height |-> 0, data |-> <<>>]
TextureData(w, h, bytes) == [some |-> TRUE, width |-> w, height |-> h, data |-> bytes]

\* load_from_gltf: a texture whose image index is in range.
GltfTexture ==
    /\ tpc = "start" /\ image.source = "gltf"
    /\ tex' = TextureData(image.width, image.height,
                          convert_to_rgba(image.pixels, image.format))
    /\ tpc' = "built"
    /\ UNCHANGED <<image, dvars, lvars, rvars, wvars, uvars, cvars, svars, ovars, gvars, evars>>

\* load_from_gltf: a texture whose image index is out of range.
GltfTextureMissing ==
    /\ tpc = "start" /\ image.source = "gltf"
    /\ tex' = NoTextureData
    /\ tpc' = "built"
    /\ UNCHANGED <<image, dvars, lvars, rvars, wvars, uvars, cvars, svars, ovars, gvars, evars>>

\* load_texture_from_data_url: img.to_rgba8().into_raw()
DataUrlTexture ==
    /\ tpc = "start" /\ image.source = "data url"
    /\ tex' = TextureData(image.width, image.height, image.pixels)
    /\ tpc' = "built"
    /\ UNCHANGED <<image, dvars, lvars, rvars, wvars, uvars, cvars, svars, ovars, gvars, evars>>

\* load_texture_from_data_url: no data URL, bad base64 or no image.
DataUrlFails ==
    /\ tpc = "start" /\ image.source = "data url"
    /\ tex' = NoTextureData
    /\ tpc' = "built"
    /\ UNCHANGED <<image, dvars, lvars, rvars, wvars, uvars, cvars, svars, ovars, gvars, evars>>

TextureInit ==
    /\ tpc = "start"
    /\ image \in Images
    /\ tex = NoTextureData

TextureIdle ==
    /\ tpc = "idle"
    /\ image = <<>>
    /\ tex = NoTextureData

TextureNext == GltfTexture \/ GltfTextureMissing \/ DataUrlTexture \/ DataUrlFails

\* C20: every TextureData a loader builds has width * height * 4 bytes,
\* whatever the pixel format of the source image.
C20_TextureBufferLength ==
    (tpc = "built" /\ tex.some) => Len(tex.data) = tex.width * tex.height * 4

\* The same for the images whose format is 8-bit, float, or R16.
C20_ExceptWide16Bit ==
    (tpc = "built" /\ tex.some /\ image.format \notin {"R16G16", "R16G16B16", "R16G16B16A16"}) =>
        Len(tex.data) = tex.width * tex.height * 4

\* C20 counterexample: a 16-bit RGBA image of one pixel became a texture of
\* 16 bytes.
C20_SixteenBitRgbaTooLong ==
    /\ tpc = "built" /\ tex.some
    /\ image.format = "R16G16B16A16"
    /\ tex.width = 1 /\ tex.height = 1
    /\ Len(tex.data) = 16

(***************************************************************************)
(* TextureData::sample.  A coordinate is n / UvSteps, or the negative      *)
(* number next to zero (tiny), whose sum with 1.0 rounds to 1.0 in f32.    *)
(* A texel is the four bytes at its index; byte 10 * t + c is channel c of *)
(* texel t.                                                                *)
(***************************************************************************)
Coordinate(n, tiny) == [n |-> n, tiny |-> tiny]
UvPoints ==
    {Coordinate(n, FALSE) : n \in (-MaxWrap * UvSteps)..(MaxWrap * UvSteps)}
    \cup {Coordinate(0, TRUE)}

TexelBytes(count) == [i \in 1..(4 * count) |-> 10 * ((i - 1) \div 4) + ((i - 1) % 4)]

\* Textures: of any size, zero included, with a buffer of width * height * 4
\* bytes, one byte less, or no bytes.
ShortBuffers(w, h) ==
    { [width |-> w, height |-> h, data |-> [i \in 1..n |-> TexelBytes(w * h)[i]]] :
        n \in {0, 4 * w * h - 1} }

SampleTextures ==
    { [width |-> w, height |-> h, data |-> TexelBytes(w * h)] :
        w \in 0..MaxImage, h \in 0..MaxImage }
    \cup UNION { ShortBuffers(w, h) : w \in 1..MaxImage, h \in 1..MaxImage }

WHITE == <<255, 255, 255, 255>>

\* f32::fract: the part behind the point, with the sign of the number.
fract(c) ==
    IF c.tiny THEN c
    ELSE Coordinate(IF c.n >= 0 THEN c.n % UvSteps ELSE -((-c.n) % UvSteps), FALSE)

\* A wrap that leaves negative fractions as they are.
NoWrap(c) == c

\* if u < 0.0 { u + 1.0 } else { u }
WrapNegative(c) ==
    IF c.tiny THEN Coordinate(UvSteps, FALSE)
    ELSE IF c.n < 0 THEN Coordinate(c.n + UvSteps, FALSE)
    ELSE c

\* (u * size as f32) as u32: towards zero, negative values to 0.
ScaleAsU32(c, size) == IF c.n < 0 THEN 0 ELSE (c.n * size) \div UvSteps

saturating_sub(a, b) == IF a >= b THEN a - b ELSE 0

sample(t, u, v) ==
    LET x == Min(ScaleAsU32(WrapNegative(fract(u)), t.width), saturating_sub(t.width, 1))
        y == Min(ScaleAsU32(WrapNegative(fract(v)), t.height), saturating_sub(t.height, 1))
        idx == (y * t.width + x) * 4
    IN IF idx + 3 < Len(t.data)
       THEN [rgba |-> <<t.data[idx + 1], t.data[idx + 2], t.data[idx + 3], t.data[idx + 4]>>,
             read |-> idx..(idx + 3)]
       ELSE [rgba |-> WHITE, read |-> {}]

NotSampled == [rgba |-> <<>>, read |-> {}]

\* let sampled = tex.sample(tex_u, tex_v)
Sample ==
    /\ spc = "start"
    /\ \E u, v \in UvPoints :
          /\ su' = u /\ sv' = v
          /\ texel' = sample(stex, u, v)
    /\ spc' = "sampled"
    /\ UNCHANGED <<stex, dvars, lvars, rvars, wvars, uvars, cvars, tvars, ovars, gvars, evars>>

SampleInit ==
    /\ spc = "start"
    /\ stex \in SampleTextures
    /\ su = Coordinate(0, FALSE) /\ sv = Coordinate(0, FALSE)
    /\ texel = NotSampled

SampleIdle ==
    /\ spc = "idle"
    /\ stex = <<>>
    /\ su = Coordinate(0, FALSE) /\ sv = Coordinate(0, FALSE)
    /\ texel = NotSampled

SampleNext == Sample

(***************************************************************************)
(* The provider COM object (provider.rs) and the class factory (lib.rs).   *)
(* One object; a wrapper is named by its position in wrappers.  The client *)
(* is a correct COM client on two threads: it calls through pointers it    *)
(* holds a reference on, releases only references it holds and that no     *)
(* call in progress uses, and undoes only its own server locks.            *)
(***************************************************************************)
Threads == {1, 2}

IID_IINITIALIZEWITHSTREAM == "IInitializeWithStream"
IID_IINITIALIZEWITHFILE == "IInitializeWithFile"
IID_ITHUMBNAILPROVIDER == "IThumbnailProvider"
IID_IUNKNOWN == "IUnknown"
AllocatingIids == {IID_IINITIALIZEWITHSTREAM, IID_IINITIALIZEWITHFILE, IID_ITHUMBNAILPROVIDER}

\* What a caller can pass as riid: a supported interface, another one, null.
Riids == AllocatingIids \cup {IID_IUNKNOWN, "IPersist", "null"}

NullPtr == 0

\* Box::into_raw(Box::new(ProviderWrapper { vtbl, inner: data_ptr })); the
\* vtable is not recorded, the calls below are the same in all of them.
NewWrapper(refs) == [frees |-> 0, held |-> refs]

\* drop(Box::from_raw(wrapper))
Freed(ws, p) == [ws EXCEPT ![p].frees = @ + 1]

Idle == [pc |-> "idle", this |-> NullPtr, riid |-> "null", mine |-> NullPtr]

Returned(call, code, ppv, count) == [call |-> call, hr |-> code, ppv |-> ppv, count |-> count]
Answered(riid, code, ppv) == [call |-> riid, hr |-> code, ppv |-> ppv, count |-> 0]

\* The calls in progress through the pointer p.
InFlight(p) == Cardinality({t \in Threads : thr[t].pc # "idle" /\ thr[t].this = p})

\* The references the client holds: one from CreateInstance, one more for
\* each AddRef and each successful QueryInterface, one less for each Release.
RECURSIVE HeldFrom(_, _)
HeldFrom(ws, i) == IF i > Len(ws) THEN 0 ELSE ws[i].held + HeldFrom(ws, i + 1)
HeldInAll == HeldFrom(wrappers, 1)

\* The pointers a thread may call through: the client holds a reference.
Callable == {p \in DOMAIN wrappers : wrappers[p].held > 0}

\* IClassFactory::CreateInstance up to the return of
\* query_interface_for_provider: GltfThumbnailProvider::new() and the wrapper
\* for the interface asked for.
CreateInstance ==
    \E t \in Threads :
        /\ obj = "none" /\ thr[t].pc = "idle"
        /\ \A o \in Threads : thr[o].pc # "created"
        /\ \E riid \in Riids, ppvobject \in {"valid", "null"}, punkouter \in BOOLEAN :
              IF ppvobject = "null" THEN
                  /\ ret' = Returned("CreateInstance", "E_POINTER", NullPtr, 0)
                  /\ UNCHANGED <<obj, ref_count, iunknown_wrapper, wrappers, thr>>
              ELSE IF punkouter THEN
                  /\ ret' = Returned("CreateInstance", "CLASS_E_NOAGGREGATION", NullPtr, 0)
                  /\ UNCHANGED <<obj, ref_count, iunknown_wrapper, wrappers, thr>>
              ELSE IF riid = "null" THEN
                  /\ ret' = Returned("CreateInstance", "E_INVALIDARG", NullPtr, 0)
                  /\ UNCHANGED <<obj, ref_count, iunknown_wrapper, wrappers, thr>>
              ELSE IF riid \in AllocatingIids \cup {IID_IUNKNOWN} THEN
                  /\ obj' = "live"
                  /\ ref_count' = 1
                  /\ wrappers' = <<NewWrapper(0)>>
                  /\ iunknown_wrapper' = IF riid = IID_IUNKNOWN THEN 1 ELSE NullPtr
                  /\ thr' = [thr EXCEPT ![t] = [Idle EXCEPT !.pc = "created", !.mine = 1]]
                  /\ UNCHANGED ret
              ELSE
                  \* drop(Arc::from_raw(data_ptr)), then provider is dropped
                  /\ ret' = Returned("CreateInstance", "E_NOINTERFACE", NullPtr, 0)
                  /\ UNCHANGED <<obj, ref_count, iunknown_wrapper, wrappers, thr>>
        /\ UNCHANGED <<LOCK_COUNT, locks, dvars, lvars, rvars, wvars, uvars, cvars, tvars, svars, gvars, evars>>

\* if hr.is_ok() { LOCK_COUNT.fetch_add(1, Ordering::Relaxed); Ok(()) }
CreateInstanceReturns ==
    \E t \in Threads :
        /\ thr[t].pc = "created"
        /\ LOCK_COUNT' = LOCK_COUNT + 1
        /\ wrappers' = [wrappers EXCEPT ![thr[t].mine].held = 1]
        /\ ret' = Returned("CreateInstance", "S_OK", thr[t].mine, 0)
        /\ thr' = [thr EXCEPT ![t] = Idle]
        /\ UNCHANGED <<obj, ref_count, iunknown_wrapper, locks, dvars, lvars, rvars, wvars, uvars, cvars, tvars, svars, gvars, evars>>

\* IClassFactory::LockServer
LockServer ==
    \E t \in Threads :
        /\ thr[t].pc = "idle"
        /\ \E flock \in BOOLEAN :
              /\ flock => locks < MaxLocks
              /\ ~flock => locks > 0
              /\ LOCK_COUNT' = IF flock THEN LOCK_COUNT + 1 ELSE LOCK_COUNT - 1
              /\ locks' = IF flock THEN locks + 1 ELSE locks - 1
        /\ ret' = Returned("LockServer", "S_OK", NullPtr, 0)
        /\ UNCHANGED <<obj, ref_count, iunknown_wrapper, wrappers, thr, dvars, lvars, rvars, wvars, uvars, cvars, tvars, svars, gvars, evars>>

\* A test for unloading that asks for one count or less.
UnloadWhenAtMostOne(count) == IF count <= 1 THEN "S_OK" ELSE "S_FALSE"

\* if LOCK_COUNT.load(Ordering::Relaxed) == 0 { S_OK } else { S_FALSE }
CanUnload(count) == IF count = 0 THEN "S_OK" ELSE "S_FALSE"

DllCanUnloadNow ==
    \E t \in Threads :
        /\ thr[t].pc = "idle"
        /\ ret' = Returned("DllCanUnloadNow", CanUnload(LOCK_COUNT), NullPtr, 0)
        /\ ret' # ret
        /\ UNCHANGED <<obj, ref_count, iunknown_wrapper, wrappers, LOCK_COUNT, locks, thr, dvars, lvars, rvars, wvars, uvars, cvars, tvars, svars, gvars, evars>>

\* query_interface_impl up to inner.ref_count.fetch_add(1, Ordering::Relaxed)
QueryInterface ==
    \E t \in Threads :
        /\ obj = "live" /\ thr[t].pc = "idle"
        /\ HeldInAll + Cardinality({o \in Threads : thr[o].pc # "idle"}) < MaxRefs
        /\ \E p \in Callable, riid \in Riids, ppv \in {"valid", "null"} :
              IF ppv = "null" THEN
                  /\ ret' = Returned("QueryInterface", "E_POINTER", NullPtr, 0)
                  /\ UNCHANGED <<ref_count, thr>>
              ELSE IF riid = "null" THEN
                  /\ ret' = Returned("QueryInterface", "E_INVALIDARG", NullPtr, 0)
                  /\ UNCHANGED <<ref_count, thr>>
              ELSE
                  /\ ref_count' = ref_count + 1
                  /\ thr' = [thr EXCEPT ![t] = [Idle EXCEPT !.pc = "query", !.this = p, !.riid = riid]]
                  /\ UNCHANGED ret
        /\ UNCHANGED <<obj, iunknown_wrapper, wrappers, LOCK_COUNT, locks, dvars, lvars, rvars, wvars, uvars, cvars, tvars, svars, gvars, evars>>

\* The three arms that allocate a wrapper of their own.
QueryAllocates ==
    \E t \in Threads :
        /\ thr[t].pc = "query" /\ thr[t].riid \in AllocatingIids
        /\ Len(wrappers) < MaxWrappers
        /\ wrappers' = Append(wrappers, NewWrapper(1))
        /\ ret' = Answered(thr[t].riid, "S_OK", Len(wrappers) + 1)
        /\ thr' = [thr EXCEPT ![t] = Idle]
        /\ UNCHANGED <<obj, ref_count, iunknown_wrapper, LOCK_COUNT, locks, dvars, lvars, rvars, wvars, uvars, cvars, tvars, svars, gvars, evars>>

\* The last arm: inner.ref_count.fetch_sub(1, Ordering::Relaxed); E_NOINTERFACE
QueryNoInterface ==
    \E t \in Threads :
        /\ thr[t].pc = "query" /\ thr[t].riid \notin AllocatingIids \cup {IID_IUNKNOWN}
        /\ ref_count' = ref_count - 1
        /\ ret' = Answered(thr[t].riid, "E_NOINTERFACE", NullPtr)
        /\ thr' = [thr EXCEPT ![t] = Idle]
        /\ UNCHANGED <<obj, iunknown_wrapper, wrappers, LOCK_COUNT, locks, dvars, lvars, rvars, wvars, uvars, cvars, tvars, svars, gvars, evars>>

\* get_or_create_iunknown_wrapper: the load, and the return of a wrapper
\* that is already there.
UnknownLoad ==
    \E t \in Threads :
        /\ thr[t].pc = "query" /\ thr[t].riid = IID_IUNKNOWN
        /\ IF iunknown_wrapper # NullPtr THEN
               /\ wrappers' = [wrappers EXCEPT ![iunknown_wrapper].held = @ + 1]
               /\ ret' = Answered(IID_IUNKNOWN, "S_OK", iunknown_wrapper)
               /\ thr' = [thr EXCEPT ![t] = Idle]
           ELSE
               /\ thr' = [thr EXCEPT ![t].pc = "alloc"]
               /\ UNCHANGED <<wrappers, ret>>
        /\ UNCHANGED <<obj, ref_count, iunknown_wrapper, LOCK_COUNT, locks, dvars, lvars, rvars, wvars, uvars, cvars, tvars, svars, gvars, evars>>

\* let wrapper = Box::into_raw(Box::new(ProviderWrapper { .. }))
UnknownAlloc ==
    \E t \in Threads :
        /\ thr[t].pc = "alloc"
        /\ Len(wrappers) < MaxWrappers
        /\ wrappers' = Append(wrappers, NewWrapper(0))
        /\ thr' = [thr EXCEPT ![t].pc = "cas", ![t].mine = Len(wrappers) + 1]
        /\ UNCHANGED <<obj, ref_count, iunknown_wrapper, LOCK_COUNT, locks, ret, dvars, lvars, rvars, wvars, uvars, cvars, tvars, svars, gvars, evars>>

\* A lost race that keeps the duplicate wrapper and returns it.
KeepDuplicate(ws, mine, existing) == [wrappers |-> ws, ppv |-> mine]

\* Err(existing) => { drop(Box::from_raw(wrapper)); existing }
RaceLost(ws, mine, existing) == [wrappers |-> Freed(ws, mine), ppv |-> existing]

\* inner.iunknown_wrapper.compare_exchange(null, wrapper_ptr, AcqRel, Acquire)
UnknownCompareExchange ==
    \E t \in Threads :
        /\ thr[t].pc = "cas"
        /\ LET out == IF iunknown_wrapper = NullPtr
                      THEN [wrappers |-> wrappers, ppv |-> thr[t].mine]
                      ELSE RaceLost(wrappers, thr[t].mine, iunknown_wrapper)
           IN /\ iunknown_wrapper' = IF iunknown_wrapper = NullPtr THEN thr[t].mine
                                     ELSE iunknown_wrapper
              /\ wrappers' = [out.wrappers EXCEPT ![out.ppv].held = @ + 1]
              /\ ret' = Answered(IID_IUNKNOWN, "S_OK", out.ppv)
        /\ thr' = [thr EXCEPT ![t] = Idle]
        /\ UNCHANGED <<obj, ref_count, LOCK_COUNT, locks, dvars, lvars, rvars, wvars, uvars, cvars, tvars, svars, gvars, evars>>

\* An AddRef that returns the count it found.
CountBefore(count) == count

\* fetch_add(1, Ordering::Relaxed) + 1
CountAfterAdd(count) == count + 1

\* add_ref_impl, GltfThumbnailProvider::add_ref
AddRef ==
    \E t \in Threads :
        /\ obj = "live" /\ thr[t].pc = "idle"
        /\ HeldInAll + Cardinality({o \in Threads : thr[o].pc # "idle"}) < MaxRefs
        /\ \E p \in Callable :
              /\ wrappers' = [wrappers EXCEPT ![p].held = @ + 1]
              /\ ref_count' = ref_count + 1
              /\ ret' = Returned("AddRef", "S_OK", p, CountAfterAdd(ref_count))
        /\ UNCHANGED <<obj, iunknown_wrapper, LOCK_COUNT, locks, thr, dvars, lvars, rvars, wvars, uvars, cvars, tvars, svars, gvars, evars>>

\* The wrappers freed by the last Release, called through the wrapper this.
FreeOnLastRelease(ws, this, unknown) ==
    LET first == IF unknown # NullPtr /\ unknown # this THEN Freed(ws, unknown) ELSE ws
    IN Freed(first, this)

\* release_impl, GltfThumbnailProvider::release
Release ==
    \E t \in Threads :
        /\ obj = "live" /\ thr[t].pc = "idle"
        /\ \E p \in Callable :
              /\ wrappers[p].held > InFlight(p)
              /\ LET count == ref_count - 1
                     given == [wrappers EXCEPT ![p].held = @ - 1]
                 IN /\ ref_count' = count
                    /\ ret' = Returned("Release", "S_OK", p, count)
                    /\ IF count = 0
                       THEN /\ wrappers' = FreeOnLastRelease(given, p, iunknown_wrapper)
                            /\ obj' = "freed"
                            /\ LOCK_COUNT' = LOCK_COUNT - 1
                       ELSE /\ wrappers' = given
                            /\ UNCHANGED <<obj, LOCK_COUNT>>
        /\ UNCHANGED <<iunknown_wrapper, locks, thr, dvars, lvars, rvars, wvars, uvars, cvars, tvars, svars, gvars, evars>>

ProviderInit ==
    /\ obj = "none"
    /\ ref_count = 0
    /\ iunknown_wrapper = NullPtr
    /\ wrappers = <<>>
    /\ LOCK_COUNT = 0
    /\ locks = 0
    /\ thr = [t \in Threads |-> Idle]
    /\ ret = Returned("none", "S_OK", NullPtr, 0)

ProviderIdle ==
    /\ obj = "idle"
    /\ ref_count = 0
    /\ iunknown_wrapper = NullPtr
    /\ wrappers = <<>>
    /\ LOCK_COUNT = 0
    /\ locks = 0
    /\ thr = [t \in Threads |-> Idle]
    /\ ret = Returned("none", "S_OK", NullPtr, 0)

ProviderNext ==
    \/ CreateInstance \/ CreateInstanceReturns \/ LockServer \/ DllCanUnloadNow
    \/ QueryInterface \/ QueryAllocates \/ QueryNoInterface
    \/ UnknownLoad \/ UnknownAlloc \/ UnknownCompareExchange
    \/ AddRef \/ Release

\* The QueryInterface calls that have incremented the count and not returned.
QueriesInFlight == Cardinality({t \in Threads : thr[t].pc \in {"query", "alloc", "cas"}})

\* The reference CreateInstance is about to hand to the client.
BeingCreated == Cardinality({t \in Threads : thr[t].pc = "created"})

\* C23: the reference count of a live provider is 1 plus the AddRef calls
\* and the successful QueryInterface calls minus the Release calls (the
\* references the client holds), counting a QueryInterface that has not
\* returned yet; AddRef returns the count after its increment, Release the
\* count after its decrement, and a QueryInterface for an unsupported
\* interface returns with the count it found.
C23_RefCountIsReferencesHeld ==
    /\ [](obj = "live" => ref_count = HeldInAll + BeingCreated + QueriesInFlight)
    /\ [][ (ret'.call = "AddRef" /\ thr' = thr /\ ref_count' # ref_count) =>
              (ref_count' = ref_count + 1 /\ ret'.count = ref_count') ]_vars
    /\ [][ (ret'.call = "Release" /\ thr' = thr /\ ref_count' # ref_count) =>
              (ref_count' = ref_count - 1 /\ ret'.count = ref_count') ]_vars
    /\ [][ (ret' # ret /\ ret'.hr = "E_NOINTERFACE" /\ ret'.call # "CreateInstance") =>
              (ref_count' = HeldInAll + QueriesInFlight - 1 /\ HeldInAll' = HeldInAll) ]_vars

\* After an AddRef and a refused QueryInterface the object is live
\* with two references.
C23_Witness ==
    /\ obj = "live" /\ ref_count = 2
    /\ ret.call = "IPersist" /\ ret.hr = "E_NOINTERFACE"
    /\ \E p \in DOMAIN wrappers : wrappers[p].held = 2

\* The provider objects CreateInstance has returned and that are not freed.
LiveObjects == IF obj = "live" /\ BeingCreated = 0 THEN 1 ELSE 0

C25_StableIUnknown ==
    /\ [][ iunknown_wrapper # NullPtr => iunknown_wrapper' = iunknown_wrapper ]_vars
    /\ [][ (ret' # ret /\ ret'.call = IID_IUNKNOWN /\ ret'.hr = "S_OK") =>
              (ret'.ppv # NullPtr /\ ret'.ppv = iunknown_wrapper') ]_vars
    /\ [][ \A t \in Threads :
              (thr[t].pc = "cas" /\ thr'[t].pc = "idle") =>
                  \/ /\ iunknown_wrapper = NullPtr
                     /\ iunknown_wrapper' = thr[t].mine
                     /\ wrappers'[thr[t].mine].frees = 0
                  \/ /\ iunknown_wrapper # NullPtr
                     /\ iunknown_wrapper # thr[t].mine
                     /\ wrappers'[thr[t].mine].frees = 1
                     /\ wrappers'[thr[t].mine].held = 0
                     /\ wrappers'[iunknown_wrapper].frees = 0 ]_vars

\* Two threads raced: one wrapper was freed as a duplicate while the object
\* is live, and the loser returned the winner's pointer.
C25_Witness ==
    /\ obj = "live"
    /\ ret.call = IID_IUNKNOWN /\ ret.ppv = iunknown_wrapper
    /\ wrappers[iunknown_wrapper].held = 2
    /\ \E p \in DOMAIN wrappers : wrappers[p].frees = 1

\* C26: when the last reference is released every wrapper allocated for the
\* object has been freed exactly once.
C26_AllWrappersFreedOnce ==
    obj = "freed" => \A p \in DOMAIN wrappers : wrappers[p].frees = 1

\* No wrapper is freed twice.
C26_NoDoubleFree == \A p \in DOMAIN wrappers : wrappers[p].frees <= 1

\* The object is freed and a wrapper QueryInterface allocated was never freed.
C26_WrapperLeaked ==
    /\ obj = "freed"
    /\ \E p \in DOMAIN wrappers : wrappers[p].frees = 0

(***************************************************************************)
(* IInitializeWithStream::Initialize, IInitializeWithFile::Initialize,     *)
(* set_data and IThumbnailProvider::GetThumbnail on one provider object.   *)
(* A stream is the list of answers of its Read calls, followed by the end  *)
(* of the stream; its bytes are those of a model, of no model, or of a     *)
(* text on which the content sniff panics.                                 *)
(***************************************************************************)
Contents == {"model", "junk", "split"}
Reads == {"S_OK", "S_FALSE", "end", "STG_E_READFAULT"}
Streams ==
    { [content |-> c, reads |-> r] :
        c \in Contents, r \in UNION {[1..n -> Reads] : n \in 0..MaxReads} }

NoSource == [kind |-> "None", content |-> "", chunks |-> 0]
Bytes_(content, chunks) == [kind |-> "Bytes", content |-> content, chunks |-> chunks]
Path_(path) == [kind |-> "Path", content |-> path, chunks |-> 0]

Err(code) == [ok |-> FALSE, code |-> code, chunks |-> 0]
Ok(chunks) == [ok |-> TRUE, code |-> "S_OK", chunks |-> chunks]

\* read_stream_to_vec: Read until 0 bytes come back; any failure is returned
\* at once, an empty result is E_FAIL.
RECURSIVE read_stream_to_vec(_, _, _)
read_stream_to_vec(reads, i, got) ==
    IF i <= Len(reads) /\ reads[i] = "STG_E_READFAULT" THEN Err("STG_E_READFAULT")
    ELSE IF i > Len(reads) \/ reads[i] = "end"
         THEN (IF got = 0 THEN Err("E_FAIL") ELSE Ok(got))
    ELSE read_stream_to_vec(reads, i + 1, got + 1)

\* renderer::render_thumbnail and render_thumbnail_from_path: pixels, None,
\* or a panic inside load_model.
render_thumbnail(src) ==
    IF src.content \in {"model", "model.glb"} THEN "pixels"
    ELSE IF src.content \in {"split", "split.json"} THEN "panic"
    ELSE "None"

\* cx.clamp(32, 1024)
clamp(cx, lo, hi) == Min(Max(cx, lo), hi)

Thumbnail(call, code) == [call |-> call, reads |-> <<>>, hr |-> code]
StreamRead(reads, code) == [call |-> "InitializeStream", reads |-> reads, hr |-> code]

\* initialize_stream_impl
InitializeStream ==
    /\ gpc = "object"
    /\ \E pstream \in Streams \cup {NoSource} :
          IF pstream = NoSource THEN
              /\ hr' = Thumbnail("InitializeStream", "E_INVALIDARG")
              /\ UNCHANGED source
          ELSE LET bytes == read_stream_to_vec(pstream.reads, 1, 0)
               IN IF ~bytes.ok THEN
                      /\ hr' = StreamRead(pstream.reads, bytes.code)
                      /\ UNCHANGED source
                  ELSE IF poisoned THEN
                      /\ hr' = StreamRead(pstream.reads, "E_FAIL")
                      /\ UNCHANGED source
                  ELSE
                      /\ hr' = StreamRead(pstream.reads, "S_OK")
                      /\ source' = Bytes_(pstream.content, bytes.chunks)
    /\ UNCHANGED <<gpc, poisoned, phbmp, pdwalpha, dvars, lvars, rvars, wvars, uvars, cvars, tvars, svars, ovars, evars>>

\* initialize_file_impl
InitializeFile ==
    /\ gpc = "object"
    /\ \E pszfilepath \in {"null", "model.glb", "missing.glb", "split.json"} :
          IF pszfilepath = "null" THEN
              /\ hr' = Thumbnail("InitializeFile", "E_INVALIDARG")
              /\ UNCHANGED source
          ELSE IF poisoned THEN
              /\ hr' = Thumbnail("InitializeFile", "E_FAIL")
              /\ UNCHANGED source
          ELSE
              /\ hr' = Thumbnail("InitializeFile", "S_OK")
              /\ source' = Path_(pszfilepath)
    /\ UNCHANGED <<gpc, poisoned, phbmp, pdwalpha, dvars, lvars, rvars, wvars, uvars, cvars, tvars, svars, ovars, evars>>

\* GltfThumbnailProvider::set_data
SetData ==
    /\ gpc = "object"
    /\ \E content \in Contents, chunks \in 0..1 :
          IF poisoned THEN
              /\ hr' = Thumbnail("set_data", "E_FAIL")
              /\ UNCHANGED source
          ELSE
              /\ hr' = Thumbnail("set_data", "S_OK")
              /\ source' = Bytes_(content, chunks)
    /\ UNCHANGED <<gpc, poisoned, phbmp, pdwalpha, dvars, lvars, rvars, wvars, uvars, cvars, tvars, svars, ovars, evars>>

\* A source check that lets an object without a source through.
NoSourceCheck(src) == "S_OK"

\* guard.as_ref().ok_or(Error::from(E_UNEXPECTED))?
SourceCheck(src) == IF src = NoSource THEN "E_UNEXPECTED" ELSE "S_OK"

\* get_thumbnail_impl; create_hbitmap_from_rgba succeeds or fails.
GetThumbnail ==
    /\ gpc = "object"
    /\ \E cx \in {0, 256, 2048}, out \in {"valid", "null"}, bitmap \in BOOLEAN :
          IF out = "null" THEN
              /\ hr' = Thumbnail("GetThumbnail(null)", "E_POINTER")
              /\ UNCHANGED <<poisoned, phbmp, pdwalpha>>
          ELSE IF poisoned THEN
              /\ hr' = Thumbnail("GetThumbnail", "E_FAIL")
              /\ UNCHANGED <<poisoned, phbmp, pdwalpha>>
          ELSE IF SourceCheck(source) # "S_OK" THEN
              /\ hr' = Thumbnail("GetThumbnail", SourceCheck(source))
              /\ UNCHANGED <<poisoned, phbmp, pdwalpha>>
          ELSE IF render_thumbnail(source) = "panic" THEN
              \* the panic is caught with the guard held: the mutex is poisoned
              /\ hr' = Thumbnail("GetThumbnail", "E_FAIL")
              /\ poisoned' = TRUE
              /\ UNCHANGED <<phbmp, pdwalpha>>
          ELSE IF render_thumbnail(source) = "None" \/ ~bitmap THEN
              /\ hr' = Thumbnail("GetThumbnail", "E_FAIL")
              /\ UNCHANGED <<poisoned, phbmp, pdwalpha>>
          ELSE
              /\ hr' = Thumbnail("GetThumbnail", "S_OK")
              /\ phbmp' = clamp(cx, 32, 1024)
              /\ pdwalpha' = "WTSAT_ARGB"
              /\ UNCHANGED poisoned
    /\ UNCHANGED <<gpc, source, dvars, lvars, rvars, wvars, uvars, cvars, tvars, svars, ovars, evars>>

ThumbnailInit ==
    /\ gpc = "object"
    /\ source = NoSource
    /\ poisoned = FALSE
    /\ hr = Thumbnail("new", "S_OK")
    /\ phbmp = 0
    /\ pdwalpha = "unwritten"

ThumbnailIdle ==
    /\ gpc = "idle"
    /\ source = NoSource
    /\ poisoned = FALSE
    /\ hr = Thumbnail("new", "S_OK")
    /\ phbmp = 0
    /\ pdwalpha = "unwritten"

ThumbnailNext == InitializeStream \/ InitializeFile \/ SetData \/ GetThumbnail

\* The reads of a stream up to its end.
BeforeEnd(reads) ==
    {i \in DOMAIN reads : \A j \in 1..i : reads[j] # "end"}

\* A Read of the stream fails before its end; the stream ends with no byte read.
ReadFails(reads) == \E i \in BeforeEnd(reads) : reads[i] = "STG_E_READFAULT"
NoBytes(reads) == BeforeEnd(reads) = {}

NoPoint == [some |-> FALSE, at |-> 0]
PointAt(at) == [some |-> TRUE, at |-> at]

VsAngles == {0, 1, 45000}
THRESHOLD == 1

VsElements ==
    [from : 0..MaxCoord, to : 0..MaxCoord,
     rotation_origin : {NoPoint} \cup {PointAt(o) : o \in 0..MaxCoord},
     angle : VsAngles]

\* scale_vec3(v, BLOCK_SCALE)
scale_vec3(v) == 2 * v

\* element.rotation_origin.map(|o| scale(o + parent_offset))
\*     .unwrap_or_else(|| (from + to) / 2.0)
OwnOrigin(e, off) ==
    IF e.rotation_origin.some THEN scale_vec3(e.rotation_origin.at + off)
    ELSE (scale_vec3(e.from + off) + scale_vec3(e.to + off)) \div 2

\* RotationTransform::is_zero
is_zero(angle) == angle < THRESHOLD

\* convert_vs_cube_to_triangles: the element's rotation on its own cube.
VsOwnCube ==
    /\ vpc = "element"
    /\ own_origin' = IF velem.angle > THRESHOLD THEN PointAt(OwnOrigin(velem, voffset))
                     ELSE NoPoint
    /\ vpc' = "own"
    /\ UNCHANGED <<velem, voffset, elem_transform, child_origin, dvars, lvars, rvars, wvars, uvars, cvars, tvars, svars, ovars, gvars>>

\* convert_vs_element_recursive: raw_origin, world_origin, elem_transform.
VsElemTransform ==
    /\ vpc = "own"
    /\ LET raw_origin == IF velem.rotation_origin.some THEN velem.rotation_origin.at ELSE 0
           world_origin == raw_origin + voffset
       IN elem_transform' = IF is_zero(velem.angle) THEN NoPoint ELSE PointAt(world_origin)
    /\ vpc' = "children"
    /\ UNCHANGED <<velem, voffset, own_origin, child_origin, dvars, lvars, rvars, wvars, uvars, cvars, tvars, svars, ovars, gvars>>

\* convert_vs_cube_to_triangles of a child: the parent's rotation about
\* scale_vec3(parent.origin, scale).
VsChildCube ==
    /\ vpc = "children"
    /\ child_origin' = IF elem_transform.some THEN PointAt(scale_vec3(elem_transform.at))
                       ELSE NoPoint
    /\ vpc' = "done"
    /\ UNCHANGED <<velem, voffset, own_origin, elem_transform, dvars, lvars, rvars, wvars, uvars, cvars, tvars, svars, ovars, gvars>>

PivotInit ==
    /\ vpc = "element"
    /\ velem \in VsElements
    /\ voffset \in 0..MaxCoord
    /\ own_origin = NoPoint
    /\ elem_transform = NoPoint
    /\ child_origin = NoPoint

PivotIdle ==
    /\ vpc = "idle"
    /\ velem = <<>>
    /\ voffset = 0
    /\ own_origin = NoPoint
    /\ elem_transform = NoPoint
    /\ child_origin = NoPoint

PivotNext == VsOwnCube \/ VsElemTransform \/ VsChildCube

\* C30: the pivot of an element's rotation on its own cube is the pivot of
\* that rotation on the cubes of its descendants, also for an element with
\* angles and no rotationOrigin.
C30_SamePivotForDescendants ==
    (vpc = "done" /\ own_origin.some /\ child_origin.some) =>
        own_origin.at = child_origin.at

\* With a rotationOrigin in the document the two pivots are the same point.
C30_SameWithRotationOrigin ==
    (vpc = "done" /\ velem.rotation_origin.some /\ own_origin.some /\ child_origin.some) =>
        own_origin.at = child_origin.at

\* An element without rotationOrigin turns its own cube about the cube's
\* centre and its descendants about the parent offset.
C30_CentreAgainstOffset ==
    /\ vpc = "done"
    /\ ~velem.rotation_origin.some
    /\ own_origin = PointAt(scale_vec3(voffset) + velem.from + velem.to)
    /\ child_origin = PointAt(scale_vec3(voffset))
    /\ own_origin # child_origin

Init == DispatchInit /\ LoadIdle /\ RenderIdle /\ WalkIdle /\ UvIdle /\ CubeIdle /\ TextureIdle /\ SampleIdle /\ ProviderIdle /\ ThumbnailIdle /\ PivotIdle

Next == DispatchNext

Spec == Init /\ [][Next]_vars

InitLoad == DispatchIdle /\ LoadInit /\ RenderIdle /\ WalkIdle /\ UvIdle /\ CubeIdle /\ TextureIdle /\ SampleIdle /\ ProviderIdle /\ ThumbnailIdle /\ PivotIdle

SpecLoad == InitLoad /\ [][LoadNext]_vars

InitRender == DispatchIdle /\ LoadIdle /\ RenderInit /\ WalkIdle /\ UvIdle /\ CubeIdle /\ TextureIdle /\ SampleIdle /\ ProviderIdle /\ ThumbnailIdle /\ PivotIdle

SpecRender == InitRender /\ [][RenderNext]_vars

InitWalk == DispatchIdle /\ LoadIdle /\ RenderIdle /\ WalkInit /\ UvIdle /\ CubeIdle /\ TextureIdle /\ SampleIdle /\ ProviderIdle /\ ThumbnailIdle /\ PivotIdle

SpecWalk == InitWalk /\ [][WalkNext]_vars

InitUv == DispatchIdle /\ LoadIdle /\ RenderIdle /\ WalkIdle /\ UvInit /\ CubeIdle /\ TextureIdle /\ SampleIdle /\ ProviderIdle /\ ThumbnailIdle /\ PivotIdle

SpecUv == InitUv /\ [][UvNext]_vars

InitCube == DispatchIdle /\ LoadIdle /\ RenderIdle /\ WalkIdle /\ UvIdle /\ CubeInit /\ TextureIdle /\ SampleIdle /\ ProviderIdle /\ ThumbnailIdle /\ PivotIdle

SpecCube == InitCube /\ [][CubeNext]_vars

InitTexture ==
    DispatchIdle /\ LoadIdle /\ RenderIdle /\ WalkIdle /\ UvIdle /\ CubeIdle /\ TextureInit /\ SampleIdle /\ ProviderIdle /\ ThumbnailIdle /\ PivotIdle

SpecTexture == InitTexture /\ [][TextureNext]_vars

\* The texel of a coordinate along an axis of size texels: the floor of the
\* fractional part (in 0 <= . < 1) times size, clamped to 0..size-1.
WrappedTexel(c, size) ==
    LET at == IF c.tiny THEN size - 1 ELSE ((c.n % UvSteps) * size) \div UvSteps
    IN Max(0, Min(at, size - 1))

Shifted(c, k) == Coordinate(c.n + k * UvSteps, FALSE)

InitSample ==
    DispatchIdle /\ LoadIdle /\ RenderIdle /\ WalkIdle /\ UvIdle /\ CubeIdle /\ TextureIdle /\ ProviderIdle /\ ThumbnailIdle /\ PivotIdle
    /\ SampleInit

SpecSample == InitSample /\ [][SampleNext]_vars

InitProvider ==
    DispatchIdle /\ LoadIdle /\ RenderIdle /\ WalkIdle /\ UvIdle /\ CubeIdle /\ TextureIdle /\ ThumbnailIdle /\ PivotIdle
    /\ SampleIdle /\ ProviderInit

SpecProvider == InitProvider /\ [][ProviderNext]_vars

InitThumbnail ==
    DispatchIdle /\ LoadIdle /\ RenderIdle /\ WalkIdle /\ UvIdle /\ CubeIdle /\ TextureIdle /\ PivotIdle
    /\ SampleIdle /\ ProviderIdle /\ ThumbnailInit

SpecThumbnail == InitThumbnail /\ [][ThumbnailNext]_vars

InitPivot ==
    DispatchIdle /\ LoadIdle /\ RenderIdle /\ WalkIdle /\ UvIdle /\ CubeIdle /\ TextureIdle
    /\ SampleIdle /\ ProviderIdle /\ ThumbnailIdle /\ PivotInit

SpecPivot == InitPivot /\ [][PivotNext]_vars

\* The loaders run to their end: a step that can be taken is taken.
SpecWalkFair == InitWalk /\ [][WalkNext]_vars /\ WF_vars(WalkNext)

====
